---- MODULE Spec2Model ----
(***************************************************************************)
(* Trading-decision and order-execution engine of the UPBIT trading agent. *)
(*                                                                         *)
(* The specifications of this module share its variables:                  *)
(*   Spec         the buy path of TradingBot._check_buy_signals:           *)
(*                OrderManager.buy_with_settings (tiered limit orders,     *)
(*                the market-buy step), the protective limit sell and the  *)
(*                position update, against a nondeterministic exchange;    *)
(*   SpecTarget   the protective-sell target price as a pure function;     *)
(*   SpecRisk     RiskManager (can_trade, update_trade_result,             *)
(*                get_risk_metrics) over a discrete clock;                 *)
(*   SpecGateway  MarketAnalyzer._send_request behind the rate_limit       *)
(*                decorator, called from two threads;                      *)
(*   SpecMonitor  the monitoring-record file of core/monitoring_coin.py;   *)
(*   SpecHoldings MarketAnalyzer.get_holdings and the tracked positions;   *)
(*   SpecSell     TradingBot._update_sell_orders over every position set;  *)
(*   SpecAnalyzer MarketAnalyzer.start, stop and _analysis_task with two   *)
(*                calling threads;                                         *)
(*   SpecStop     the buy path with a TradingBot.stop during a wait;       *)
(*   SpecDemand   the buy path next to an on-demand market_buy;            *)
(*   SpecScan     the loops of get_monitored_coins and                     *)
(*                _check_buy_signals over the markets of one scan;         *)
(*   SpecScore    MarketAnalyzer.calculate_buy_score;                      *)
(*   SpecTick     _get_tick_size as a function of the price;               *)
(*   SpecCache    the cache slots of MarketAnalyzer over a clock;          *)
(*   SpecState    core/trading_state.py: can_open_position and the         *)
(*                position set;                                            *)
(*   SpecTrader   process_market of trader/upbit_trader.py on top of the   *)
(*                risk manager.                                            *)
(*                                                                         *)
(* Prices are exact fixed-point numbers in hundredths of a won (the        *)
(* smallest tick is 0.01), TP_PCT is in hundredths of a percent.  IEEE     *)
(* rounding of the Python floats is not modelled.                          *)
(***************************************************************************)
EXTENDS Integers, Sequences, FiniteSets, TLC

VARIABLES
    \* ---- buy path (OrderManager / TradingBot) ----
    buy_settings,   \* TradingBot.buy_settings: the four order-placement keys
    pc,             \* position of the scan thread inside _check_buy_signals
    symbol,         \* loop variable of _check_buy_signals
    tier,           \* which _place_limit_order call of buy_with_settings runs
    book,           \* order book read by the running _place_limit_order
    orders,         \* exchange side: every order accepted so far, by uuid
    cur,            \* uuid the thread waits on / cancels (0: none)
    elapsed,        \* seconds elapsed in the running _wait_for_order loop (0 outside)
    limRet,         \* return value of the last _place_limit_order
    buyRet,         \* return value of buy_with_settings (or the raise)
    sellRet,        \* return value of place_limit_sell
    fill,           \* avg_price, executed_volume, target_price of the fill
    positions,      \* OneMinStrategy.positions
    calls,          \* API calls of the running loop body, in order
    tierRets,       \* what the _place_limit_order calls of the running
                    \* buy_with_settings returned, in order
    \* ---- protective-sell target as a function ----
    tgtIn, tgtOut,
    \* ---- RiskManager ----
    risk_config,    \* risk_management.system of config.json
    consecutive_losses, last_loss_time, daily_loss, last_reset_day,
    now,            \* wall clock, in minutes
    riskCall,       \* the last RiskManager call: pre-state, argument, result
    lossRun,        \* losses recorded since the last non-negative result or reset
    \* ---- MarketAnalyzer._send_request behind rate_limit ----
    gwClock,        \* time.time(), in ticks of 0.1 s
    last_called,    \* last_called['_send_request'] of the decorator (0: no key)
    th,             \* per thread: position in the wrapper / the body, its locals
    notFound,       \* markets the exchange has answered 404 for
    execCount,      \* executions of the wrapped function started so far
    lastExec,       \* start time of the last of them (0: none yet)
    \* ---- core/monitoring_coin.py ----
    monFile,        \* monitoring_coin.json on disk
    monPc,          \* position of the running operation inside _save
    monData,        \* the dict the running operation saves
    monPrev,        \* the file as the last operation found it
    monOp,          \* the last operation and its arguments
    monCrashed,     \* the process died inside the last save
    \* ---- MarketAnalyzer.get_holdings ----
    open_positions, \* tracked open positions by market
    sellOrders,     \* exchange side: protective sell orders, by uuid
    krw_balance,    \* MarketAnalyzer.krw_balance
    holdCall,       \* the last get_holdings call: what it found and left
    \* ---- sell-order check of the trading cycle ----
    sellReport,     \* history: number of _update_sell_orders runs and what
                    \* get_order_info reported per position in the last one
    \* ---- MarketAnalyzer.start / stop / _analysis_task ----
    keys_ok,        \* access_key and secret_key are both set
    is_running,     \* MarketAnalyzer.is_running
    stop_event,     \* MarketAnalyzer.stop_event is set
    threads,        \* every analysis thread created so far
    analysis_thread, \* MarketAnalyzer.analysis_thread (0: None)
    callers,        \* the threads of the web layer that call start and stop
    \* ---- TradingBot.stop ----
    stopSignal,     \* TradingBot.is_running was set False, and (history) the
                    \* order waited on and the seconds elapsed at that instant
    \* ---- MarketAnalyzer.market_buy (on demand) ----
    demand,         \* the web thread inside market_buy: position, market and
                    \* what the call returned
    \* ---- one scan: get_monitored_coins / _check_buy_signals ----
    scanOp,         \* which of the two functions runs
    scanN,          \* number of markets handed to its loop
    scanPc,         \* position inside the function
    scanIdx,        \* index of the loop
    scanLog,        \* history: stage, market and outcome of every loop body run
    market_info,    \* markets that passed the filter loop
    monitored_coins, \* markets scored by the second loop
    \* ---- MarketAnalyzer.calculate_buy_score ----
    scoreIn,        \* configuration and market data of the last evaluation
    scoreOut,       \* what it returned, in halves of a point
    scoreFirst,     \* history: input and result of the first evaluation
    scoreEvals,     \* number of evaluations so far
    \* ---- _get_tick_size as a function ----
    tickIn,         \* two prices, in hundredths of a won
    tickOut,        \* the tick sizes both implementations return for them
    \* ---- MarketAnalyzer's cache ----
    cache,          \* slot -> [n: items of the data, timestamp: time or None]
    cacheNow,       \* datetime.now(), in seconds
    cacheTicks,     \* how often the clock has moved
    cacheOut,       \* the last cache operation and its result
    \* ---- TradingState ----
    active_positions,  \* the markets with an active position
    market_cooldowns,  \* market -> end of its cooldown, None without one
    stateNow,          \* datetime.now(), in minutes
    openOut,           \* the last can_open_position call and its answer
    \* ---- trader/upbit_trader.py ----
    trPositions,    \* state.positions: the markets with a position
    trOut           \* the last process_market call and what it did

buyVars  == <<buy_settings, pc, symbol, tier, book, orders, cur, elapsed,
              limRet, buyRet, sellRet, fill, positions, calls, tierRets>>
tgtVars  == <<tgtIn, tgtOut>>
riskVars == <<risk_config, consecutive_losses, last_loss_time, daily_loss,
              last_reset_day, now, riskCall, lossRun>>
gwVars   == <<gwClock, last_called, th, notFound, execCount, lastExec>>
monVars  == <<monFile, monPc, monData, monPrev, monOp, monCrashed>>
holdVars == <<open_positions, sellOrders, krw_balance, holdCall>>
sellVars == <<sellReport>>
lifeVars == <<keys_ok, is_running, stop_event, threads, analysis_thread, callers>>
stopVars == <<stopSignal>>
demandVars == <<demand>>
scanVars == <<scanOp, scanN, scanPc, scanIdx, scanLog, market_info,
              monitored_coins>>
scoreVars == <<scoreIn, scoreOut, scoreFirst, scoreEvals>>
tickVars == <<tickIn, tickOut>>
cacheVars == <<cache, cacheNow, cacheTicks, cacheOut>>
stateVars == <<active_positions, market_cooldowns, stateNow, openOut>>
traderVars == <<trPositions, trOut>>
vars     == <<buyVars, tgtVars, riskVars, gwVars, monVars, holdVars,
              sellVars, lifeVars, stopVars, demandVars, scanVars, scoreVars,
              tickVars, cacheVars, stateVars, traderVars>>

\* what the actions of one part leave unchanged
exceptBuy      == <<tgtVars, riskVars, gwVars, monVars, holdVars, sellVars,
                    lifeVars, stopVars, demandVars, scanVars, scoreVars,
                    tickVars, cacheVars, stateVars, traderVars>>
exceptTarget   == <<buyVars, riskVars, gwVars, monVars, holdVars, sellVars,
                    lifeVars, stopVars, demandVars, scanVars, scoreVars,
                    tickVars, cacheVars, stateVars, traderVars>>
exceptRisk     == <<buyVars, tgtVars, gwVars, monVars, holdVars, sellVars,
                    lifeVars, stopVars, demandVars, scanVars, scoreVars,
                    tickVars, cacheVars, stateVars, traderVars>>
exceptGateway  == <<buyVars, tgtVars, riskVars, monVars, holdVars, sellVars,
                    lifeVars, stopVars, demandVars, scanVars, scoreVars,
                    tickVars, cacheVars, stateVars, traderVars>>
exceptMonitor  == <<buyVars, tgtVars, riskVars, gwVars, holdVars, sellVars,
                    lifeVars, stopVars, demandVars, scanVars, scoreVars,
                    tickVars, cacheVars, stateVars, traderVars>>
exceptHoldings == <<buyVars, tgtVars, riskVars, gwVars, monVars, sellVars,
                    lifeVars, stopVars, demandVars, scanVars, scoreVars,
                    tickVars, cacheVars, stateVars, traderVars>>
exceptSell     == <<tgtVars, riskVars, gwVars, monVars, holdVars, lifeVars,
                    stopVars, demandVars, scanVars, scoreVars, tickVars,
                    cacheVars, stateVars, traderVars>>
exceptAnalyzer == <<tgtVars, riskVars, gwVars, monVars, holdVars, sellVars,
                    stopVars, demandVars, scanVars, scoreVars, tickVars,
                    cacheVars, stateVars, traderVars>>
exceptStop     == <<buyVars, tgtVars, riskVars, gwVars, monVars, holdVars,
                    sellVars, lifeVars, demandVars, scanVars, scoreVars,
                    tickVars, cacheVars, stateVars, traderVars>>
exceptDemand   == <<tgtVars, riskVars, gwVars, monVars, holdVars, sellVars,
                    lifeVars, stopVars, scanVars, scoreVars, tickVars,
                    cacheVars, stateVars, traderVars>>
exceptScan     == <<buyVars, tgtVars, riskVars, gwVars, monVars, holdVars,
                    sellVars, lifeVars, stopVars, demandVars, scoreVars,
                    tickVars, cacheVars, stateVars, traderVars>>
exceptScore    == <<buyVars, tgtVars, riskVars, gwVars, monVars, holdVars,
                    sellVars, lifeVars, stopVars, demandVars, scanVars,
                    tickVars, cacheVars, stateVars, traderVars>>
exceptTick     == <<buyVars, tgtVars, riskVars, gwVars, monVars, holdVars,
                    sellVars, lifeVars, stopVars, demandVars, scanVars,
                    scoreVars, cacheVars, stateVars, traderVars>>
exceptCache    == <<buyVars, tgtVars, riskVars, gwVars, monVars, holdVars,
                    sellVars, lifeVars, stopVars, demandVars, scanVars,
                    scoreVars, tickVars, stateVars, traderVars>>
exceptState    == <<buyVars, tgtVars, riskVars, gwVars, monVars, holdVars,
                    sellVars, lifeVars, stopVars, demandVars, scanVars,
                    scoreVars, tickVars, cacheVars, traderVars>>
exceptTrader   == <<buyVars, tgtVars, gwVars, monVars, holdVars, sellVars,
                    lifeVars, stopVars, demandVars, scanVars, scoreVars,
                    tickVars, cacheVars, stateVars>>

----------------------------------------------------------------------------
\* Bounds of the model
MaxWaitSec  == 2    \* LIMIT_WAIT_SEC_1 / LIMIT_WAIT_SEC_2 range over 0..MaxWaitSec
MaxOrders   == 3    \* orders the exchange accepts over one run
MaxMinTicks == 3    \* MINIMUM_TICKS ranges over 0..MaxMinTicks
MaxTime     == 8    \* the clock of the risk manager runs from 1 to MaxTime
DayLen      == 4    \* clock ticks per local day
MaxAbsDaily == 4    \* |daily_loss| stays within MaxAbsDaily
MaxLosses   == 4    \* consecutive_losses stays within MaxLosses
MaxTick     == 22   \* the clock of the gateway runs from 1 to MaxTick
MaxExecs    == 3    \* executions of _send_request over one run
MaxSellOrders == 3  \* protective sell orders resting or ended over one run

\* Program constants
PriceScale       == 100   \* price units per won: 1 / (smallest tick 0.01)
EntrySizeInitial == 7000  \* DEFAULT_BUY_SETTINGS['ENTRY_SIZE_INITIAL']
OrderTimeout     == 60    \* OrderManager.order_timeout
DefaultTpPct     == 18    \* DEFAULT_SELL_SETTINGS['TP_PCT'] = 0.18
DefaultMinTicks  == 2     \* DEFAULT_SELL_SETTINGS['MINIMUM_TICKS']
MinRequestInterval == 1   \* @rate_limit(0.1), in ticks of 0.1 s
RetryCoolOff     == 10    \* time.sleep(1) after a 429, in ticks of 0.1 s
MinValue         == 5000  \* sync_holdings(holdings, min_value=5000)
MinHoldingValue  == 5000  \* MIN_HOLDING_VALUE

None == 0                 \* Python None for a uuid, a time or an order

Markets == {"KRW-A", "KRW-B"}

----------------------------------------------------------------------------
\* Pure functions

\* math.ceil(a / b) for b > 0, on exact numbers
CeilDiv(a, b) == -((-a) \div b)

\* the limit 10,000 belongs to the band below it
TickSizeLimitInclusive(price) ==
    IF price < 10 * PriceScale THEN 1
    ELSE IF price < 100 * PriceScale THEN 10
    ELSE IF price < 1000 * PriceScale THEN 1 * PriceScale
    ELSE IF price <= 10000 * PriceScale THEN 5 * PriceScale
    ELSE IF price < 100000 * PriceScale THEN 10 * PriceScale
    ELSE IF price < 500000 * PriceScale THEN 50 * PriceScale
    ELSE IF price < 1000000 * PriceScale THEN 100 * PriceScale
    ELSE IF price < 2000000 * PriceScale THEN 500 * PriceScale
    ELSE 1000 * PriceScale

\* TradingBot._get_tick_size, prices and ticks in hundredths of a won
TickSize(price) ==
    IF price < 10 * PriceScale THEN 1
    ELSE IF price < 100 * PriceScale THEN 10
    ELSE IF price < 1000 * PriceScale THEN 1 * PriceScale
    ELSE IF price < 10000 * PriceScale THEN 5 * PriceScale
    ELSE IF price < 100000 * PriceScale THEN 10 * PriceScale
    ELSE IF price < 500000 * PriceScale THEN 50 * PriceScale
    ELSE IF price < 1000000 * PriceScale THEN 100 * PriceScale
    ELSE IF price < 2000000 * PriceScale THEN 500 * PriceScale
    ELSE 1000 * PriceScale

\* ceil(avg * (1 + tp/100) / tick) on exact numbers.  With avg = k * tick + r
\* the quotient is k + (avg * tp + 10000 * r) / (10000 * tick); in this form
\* every intermediate value stays within TLC's 32-bit integers.
CeilRaw(avg_price, tp_pct, t) ==
    (avg_price \div t)
        + CeilDiv(avg_price * tp_pct + 10000 * (avg_price % t), 10000 * t)

\* Mutants of TargetPrice
TargetPriceNoFloor(avg_price, tp_pct, min_ticks) ==
    LET t == TickSize(avg_price)
    IN  CeilRaw(avg_price, tp_pct, t) * t

TargetPriceRoundDown(avg_price, tp_pct, min_ticks) ==
    LET t  == TickSize(avg_price)
        t1 == ((avg_price \div t)
                + (avg_price * tp_pct + 10000 * (avg_price % t)) \div (10000 * t)) * t
    IN  IF t1 - avg_price < t * min_ticks
        THEN CeilDiv(avg_price + t * min_ticks, t) * t
        ELSE t1

\* TradingBot._check_buy_signals, the target price of the protective sell:
\*   tick = self._get_tick_size(avg_price)
\*   target_price = avg_price * (1 + tp_pct / 100)
\*   target_price = math.ceil(target_price / tick) * tick
\*   if target_price - avg_price < tick * min_ticks:
\*       target_price = avg_price + tick * min_ticks
\*       target_price = math.ceil(target_price / tick) * tick
TargetPrice(avg_price, tp_pct, min_ticks) ==
    LET t  == TickSize(avg_price)
        t1 == CeilRaw(avg_price, tp_pct, t) * t
    IN  IF t1 - avg_price < t * min_ticks
        THEN CeilDiv(avg_price + t * min_ticks, t) * t
        ELSE t1

\* buy_with_settings: mapping of the configured price rule
PriceRule(key) ==
    CASE key = "BID1"  -> "best_bid"
      [] key = "BID1+" -> "best_bid+1"
      [] key = "ASK1"  -> "best_ask"
      [] OTHER         -> "best_bid"

\* _place_limit_order: limit price from the best bid / best ask
LimitPrice(order_type, b) ==
    LET tk == IF b.ask > b.bid THEN b.ask - b.bid ELSE b.bid \div 1000
    IN  CASE order_type = "best_bid"   -> b.bid
          [] order_type = "best_bid+1" -> b.bid + tk
          [] order_type = "best_ask"   -> b.ask
          [] OTHER                     -> b.ask

----------------------------------------------------------------------------
\* The exchange, as the buy path sees it

\* Order books pyupbit.get_orderbook can return (best bid / best ask)
Books == { [bid |-> 1000 * PriceScale, ask |-> 1005 * PriceScale] }

\* a volume as the exact quotient num / den (amount in won over price)
Volume(num, den) == [num |-> num, den |-> den]
NoVolume == Volume(0, 1)

NoBook  == [bid |-> 0, ask |-> 0]
NoRet   == [success |-> FALSE, order |-> None, error |-> "unset"]
NoBuy   == [success |-> FALSE, order |-> None, error |-> "unset", raised |-> FALSE]
NoFill  == [avg_price |-> 0, executed_volume |-> NoVolume, target_price |-> 0,
            sell_id |-> None]

\* a return value (success, order-or-error)
Ret(ok, id, err) == [success |-> ok, order |-> id, error |-> err]

\* UpbitAPI.place_order accepted by the exchange: a new order in state wait
NewOrder(side, ord_type, price, volume) ==
    [side |-> side, ord_type |-> ord_type, price |-> price, volume |-> volume,
     state |-> "wait", executed_volume |-> NoVolume]

\* an API call of the running buy_with_settings, as the exchange saw it
Call(op, kind, id) == [op |-> op, kind |-> kind, id |-> id]

\* The exchange fills a resting order (fully), at any moment, and reports its
\* volume as executed_volume
ExchangeFill(i) ==
    /\ i \in 1..Len(orders)
    /\ orders[i].state = "wait"
    /\ orders' = [orders EXCEPT ![i].state = "done",
                                ![i].executed_volume = orders[i].volume]
    /\ UNCHANGED <<buy_settings, pc, symbol, tier, book, cur, elapsed, limRet,
                   buyRet, sellRet, fill, positions, calls>>
    /\ UNCHANGED <<tierRets, exceptBuy>>

----------------------------------------------------------------------------
\* TradingBot._check_buy_signals -> OrderManager.buy_with_settings

\* _check_buy_signals, loop body up to the call of buy_with_settings: a symbol
\* without a position whose buy signal fired
CheckBuySignal(s) ==
    /\ pc = "idle"
    /\ s \notin DOMAIN positions
    /\ Len(orders) + 3 <= MaxOrders
    /\ symbol' = s
    /\ tier' = 1
    /\ pc' = "limit_submit"
    /\ UNCHANGED <<buy_settings, book, orders, cur, elapsed, limRet, buyRet,
                   sellRet, fill, positions, calls>>
    /\ UNCHANGED <<tierRets, exceptBuy>>

\* the price rule and the wait of the running tier
TierType == IF tier = 1 THEN PriceRule(buy_settings.bid1) ELSE PriceRule(buy_settings.bid2)
TierWait == IF tier = 1 THEN buy_settings.wait1 ELSE buy_settings.wait2

\* _place_limit_order up to the wait: order-book lookup, then place_order
LimitSubmit ==
    /\ pc = "limit_submit"
    /\ \/ \* get_orderbook returned nothing
          /\ limRet' = Ret(FALSE, None, "book")
          /\ calls' = Append(calls, Call("get_orderbook", "none", None))
          /\ pc' = "limit_return"
          /\ UNCHANGED <<orders, cur, book>>
       \/ \* order book read, place_order refused ({'error': ...})
          \E b \in Books :
          /\ book' = b
          /\ limRet' = Ret(FALSE, None, "order")
          /\ calls' = calls \o << Call("get_orderbook", "ok", None),
                                  Call("place_order", "limit_bid", None) >>
          /\ pc' = "limit_return"
          /\ UNCHANGED <<orders, cur>>
       \/ \* order book read, limit order accepted
          \E b \in Books :
          /\ book' = b
          /\ orders' = Append(orders,
                              NewOrder("bid", "limit", LimitPrice(TierType, b),
                                       Volume(EntrySizeInitial * PriceScale,
                                              LimitPrice(TierType, b))))
          /\ cur' = Len(orders) + 1
          /\ calls' = calls \o << Call("get_orderbook", "ok", None),
                                  Call("place_order", "limit_bid", Len(orders) + 1) >>
          /\ limRet' = NoRet
          /\ pc' = "limit_wait"
    /\ elapsed' = 0
    /\ UNCHANGED <<buy_settings, symbol, tier, buyRet, sellRet, fill, positions>>
    /\ UNCHANGED <<tierRets, exceptBuy>>

\* OrderManager._wait_for_order(uuid, timeout): the possible outcomes of one
\* evaluation of the loop condition and, when it holds, one poll.  end: the
\* call returns ret; otherwise it sleeps one second and loops.
WaitForOrder(id, el, timeout) ==
    IF el >= timeout
    THEN { [end |-> TRUE, ret |-> Ret(FALSE, None, "")] }
    ELSE { [end |-> TRUE, ret |-> Ret(FALSE, None, "")] }   \* get_order_status: None
         \cup
         { IF orders[id].state = "done"
           THEN [end |-> TRUE, ret |-> Ret(TRUE, id, "")]
           ELSE IF orders[id].state = "canceled"
           THEN [end |-> TRUE, ret |-> Ret(FALSE, id, "")]
           ELSE [end |-> FALSE, ret |-> NoRet] }

\* UpbitAPI.cancel_order(uuid) as the exchange answers it: a resting order is
\* canceled, or the request fails and the order is left as it was
CancelOrder(id) ==
    /\ calls' = Append(calls, Call("cancel_order", "none", id))
    /\ \/ /\ orders[id].state = "wait"
          /\ orders' = [orders EXCEPT ![id].state = "cancel"]
       \/ UNCHANGED orders

\* _place_limit_order, the wait: _wait_for_order(order['uuid'], timeout)
LimitWait ==
    /\ pc = "limit_wait"
    /\ \E w \in WaitForOrder(cur, elapsed, TierWait) :
         /\ limRet' = w.ret
         /\ elapsed' = IF w.end THEN 0 ELSE elapsed + 1
         /\ pc' = IF ~w.end THEN "limit_wait"
                  ELSE IF w.ret.success THEN "limit_return" ELSE "limit_cancel"
    /\ UNCHANGED <<buy_settings, symbol, tier, book, orders, cur, buyRet,
                   sellRet, fill, positions, calls>>
    /\ UNCHANGED <<tierRets, exceptBuy>>

\* Mutant of LimitCancel: the unfilled limit order is left resting
LimitCancelSkipped ==
    /\ pc = "limit_cancel"
    /\ pc' = "limit_return"
    /\ UNCHANGED <<buy_settings, symbol, tier, book, orders, cur, elapsed, limRet,
                   buyRet, sellRet, fill, positions, calls>>
    /\ UNCHANGED <<tierRets, exceptBuy>>

\* _place_limit_order, after an unsuccessful wait: cancel_order(order['uuid'])
LimitCancel ==
    /\ pc = "limit_cancel"
    /\ CancelOrder(cur)
    /\ pc' = "limit_return"
    /\ UNCHANGED <<buy_settings, symbol, tier, book, cur, elapsed, limRet,
                   buyRet, sellRet, fill, positions>>
    /\ UNCHANGED <<tierRets, exceptBuy>>

\* Mutants of AfterTier
AfterTierIgnoringBook(t, r, second_wait) ==
    IF r.success THEN "return_order"
    ELSE IF t = 1 /\ second_wait > 0 THEN "tier2"
    ELSE "market"

AfterTierAlwaysSecond(t, r, second_wait) ==
    IF r.success THEN "return_order"
    ELSE IF r.error = "book" THEN "give_up"
    ELSE IF t = 1 /\ second_wait >= 0 THEN "tier2"
    ELSE "market"

\* buy_with_settings, the decision after _place_limit_order number t returned r
AfterTier(t, r, second_wait) ==
    IF r.success THEN "return_order"
    ELSE IF r.error = "book" THEN "give_up"
    ELSE IF t = 1 /\ second_wait > 0 THEN "tier2"
    ELSE "market"

\* buy_with_settings between the tiers
BuyEscalate ==
    /\ pc = "limit_return"
    /\ LET d == AfterTier(tier, limRet, buy_settings.wait2)
       IN  CASE d = "return_order" ->
                  /\ buyRet' = [success |-> TRUE, order |-> limRet.order,
                                error |-> "", raised |-> FALSE]
                  /\ pc' = "buy_return"
                  /\ UNCHANGED tier
             [] d = "give_up" ->
                  /\ buyRet' = [success |-> FALSE, order |-> None,
                                error |-> "book", raised |-> FALSE]
                  /\ pc' = "buy_return"
                  /\ UNCHANGED tier
             [] d = "tier2" ->
                  /\ tier' = 2
                  /\ pc' = "limit_submit"
                  /\ UNCHANGED buyRet
             [] OTHER ->
                  /\ pc' = "market_buy"
                  /\ UNCHANGED <<tier, buyRet>>
    /\ UNCHANGED <<buy_settings, symbol, book, orders, cur, elapsed, limRet,
                   sellRet, fill, positions, calls>>
    /\ tierRets' = Append(tierRets, limRet)
    /\ UNCHANGED exceptBuy

\* buy_with_settings, the market buy:
\*   self.api.place_order(market=market, side='bid', price=amount, ord_type='price')
\* UpbitAPI.place_order(self, market, side, volume, price=None, ord_type='limit')
\* has no default for volume: the call raises TypeError before any request is
\* built, and buy_with_settings has no handler, so the exception leaves it.
MarketBuy ==
    /\ pc = "market_buy"
    /\ calls' = Append(calls, Call("place_order_raised", "price_bid", None))
    /\ buyRet' = [success |-> FALSE, order |-> None, error |-> "TypeError",
                  raised |-> TRUE]
    /\ pc' = "buy_return"
    /\ UNCHANGED <<buy_settings, symbol, tier, book, orders, cur, elapsed, limRet,
                   sellRet, fill, positions>>
    /\ UNCHANGED <<tierRets, exceptBuy>>

----------------------------------------------------------------------------
\* TradingBot._check_buy_signals after buy_with_settings

\* _check_buy_signals, from the return of buy_with_settings to the call of
\* place_limit_sell; an exception of buy_with_settings goes to the handler of
\* the loop body, which logs it.
BuyReturned ==
    /\ pc = "buy_return"
    /\ IF ~buyRet.raised /\ buyRet.success /\ buyRet.order # None
          /\ orders[buyRet.order].executed_volume.num # 0
       THEN LET avg == orders[buyRet.order].price
            IN  /\ fill' = [avg_price |-> avg,
                            executed_volume |-> orders[buyRet.order].executed_volume,
                            target_price |-> TargetPrice(avg, DefaultTpPct, DefaultMinTicks),
                            sell_id |-> None]
                /\ pc' = "sell_submit"
       ELSE /\ pc' = "body_end"
            /\ UNCHANGED fill
    /\ UNCHANGED <<buy_settings, symbol, tier, book, orders, cur, elapsed, limRet,
                   buyRet, sellRet, positions, calls>>
    /\ UNCHANGED <<tierRets, exceptBuy>>

\* OrderManager.place_limit_sell up to the wait: place_order(side='ask',
\* volume, price, ord_type='limit')
SellSubmit ==
    /\ pc = "sell_submit"
    /\ \/ \* refused
          /\ sellRet' = Ret(FALSE, None, "order")
          /\ calls' = Append(calls, Call("place_order", "limit_ask", None))
          /\ pc' = "update_position"
          /\ UNCHANGED <<orders, cur, fill>>
       \/ \* accepted
          /\ orders' = Append(orders, NewOrder("ask", "limit", fill.target_price,
                                       fill.executed_volume))
          /\ cur' = Len(orders) + 1
          /\ fill' = [fill EXCEPT !.sell_id = Len(orders) + 1]
          /\ calls' = Append(calls, Call("place_order", "limit_ask", Len(orders) + 1))
          /\ sellRet' = NoRet
          /\ pc' = "sell_wait"
    /\ elapsed' = 0
    /\ UNCHANGED <<buy_settings, symbol, tier, book, limRet, buyRet, positions>>
    /\ UNCHANGED <<tierRets, exceptBuy>>

\* place_limit_sell, the wait: _wait_for_order(order['uuid'], self.order_timeout)
SellWait ==
    /\ pc = "sell_wait"
    /\ \E w \in WaitForOrder(cur, elapsed, OrderTimeout) :
         /\ sellRet' = w.ret
         /\ elapsed' = IF w.end THEN 0 ELSE elapsed + 1
         /\ pc' = IF ~w.end THEN "sell_wait"
                  ELSE IF w.ret.success THEN "update_position" ELSE "sell_cancel"
    /\ UNCHANGED <<buy_settings, symbol, tier, book, orders, cur, limRet, buyRet,
                   fill, positions, calls>>
    /\ UNCHANGED <<tierRets, exceptBuy>>

\* place_limit_sell, after an unsuccessful wait: cancel_order(order['uuid'])
SellCancel ==
    /\ pc = "sell_cancel"
    /\ CancelOrder(cur)
    /\ pc' = "update_position"
    /\ UNCHANGED <<buy_settings, symbol, tier, book, cur, elapsed, limRet,
                   buyRet, sellRet, fill, positions>>
    /\ UNCHANGED <<tierRets, exceptBuy>>

\* _check_buy_signals:
\*   sell_uuid = sell_order['uuid'] if sell_success and sell_order else None
\*   self.strategy.update_position(symbol, avg_price, executed_volume,
\*                                 sell_uuid, target_price)
\* OneMinStrategy.update_position(self, symbol, entry_price, amount) takes three
\* arguments: the call raises TypeError, the handler of the loop body logs it,
\* and positions is left as it was.
UpdatePosition ==
    /\ pc = "update_position"
    /\ pc' = "body_end"
    /\ UNCHANGED positions
    /\ UNCHANGED <<buy_settings, symbol, tier, book, orders, cur, elapsed, limRet,
                   buyRet, sellRet, fill, calls>>
    /\ UNCHANGED <<tierRets, exceptBuy>>

\* _check_buy_signals, end of the loop body: the locals go out of scope
NextSymbol ==
    /\ pc = "body_end"
    /\ pc' = "idle"
    /\ tier' = 0 /\ book' = NoBook /\ cur' = None /\ elapsed' = 0
    /\ limRet' = NoRet /\ buyRet' = NoBuy /\ sellRet' = NoRet /\ fill' = NoFill
    /\ calls' = << >> /\ tierRets' = << >>
    /\ UNCHANGED <<buy_settings, symbol, orders, positions>>
    /\ UNCHANGED exceptBuy

----------------------------------------------------------------------------
\* Initial values of the parts a specification does not use

BuyIdle ==
    /\ buy_settings = [bid1 |-> "BID1", wait1 |-> 0, bid2 |-> "BID1", wait2 |-> 0]
    /\ pc = "off" /\ symbol = "KRW-A" /\ tier = 0 /\ book = NoBook
    /\ orders = << >> /\ cur = None /\ elapsed = 0
    /\ limRet = NoRet /\ buyRet = NoBuy /\ sellRet = NoRet /\ fill = NoFill
    /\ positions = [m \in {} |-> NoFill]
    /\ calls = << >> /\ tierRets = << >>

TargetIdle ==
    /\ tgtIn = [avg_price |-> 0, tp_pct |-> 0, min_ticks |-> 0]
    /\ tgtOut = None

NoRiskCall == [op |-> "none", arg |-> 0, at |-> 0, pre_losses |-> 0,
               pre_loss_time |-> None, pre_daily |-> 0, pre_day |-> 0,
               allowed |-> FALSE, reason |-> ""]

RiskIdle ==
    /\ risk_config = [max_daily_loss |-> 0, consecutive_loss_limit |-> 0,
                      cooldown_minutes |-> 0]
    /\ consecutive_losses = 0 /\ last_loss_time = None /\ daily_loss = 0
    /\ last_reset_day = 0 /\ now = 0 /\ lossRun = 0
    /\ riskCall = NoRiskCall

\* a thread that is not inside _send_request
NoReq == [method |-> "", endpoint |-> "", market |-> ""]

NoResult == [raised |-> FALSE, value |-> "pending"]

IdleThread == [pc |-> "idle", req |-> NoReq, current_time |-> 0, wake |-> 0,
               sent |-> 0, ret |-> NoResult]

\* the threads that reach MarketAnalyzer: the analysis thread and an
\* on-demand query (a web route)
Threads == {"analysis", "query"}

GatewayIdle ==
    /\ gwClock = 0 /\ last_called = None
    /\ th = [t \in Threads |-> [IdleThread EXCEPT !.pc = "off"]]
    /\ notFound = {} /\ execCount = 0 /\ lastExec = None

\* the markets of the monitoring file in the model; KRW-ETHW is one of
\* DEFAULT_COIN_SELECTION["excluded_coins"]
MonMarkets == {"KRW-UNI", "KRW-ETHW"}

ExcludedCoins == {"KRW-ETHW", "KRW-ETHF", "KRW-XCORE", "KRW-GAS", "KRW-BTS"}

\* an empty dict
NoRecords == [m \in {} |-> [amount |-> 0, pre_sell |-> FALSE]]

\* monitoring_coin.json: absent, complete (valid JSON of data), empty
\* (truncated) or partial (cut inside the JSON text)
NoFile == [state |-> "absent", data |-> NoRecords]

NoMonOp == [op |-> "none", market |-> "", amount |-> 0, pre_sell |-> FALSE,
            holdings |-> NoRecords]

MonitorIdle ==
    /\ monFile = NoFile /\ monPc = "off" /\ monData = NoRecords
    /\ monPrev = NoFile /\ monOp = NoMonOp /\ monCrashed = FALSE

\* an empty holdings dict, an empty open_positions
NoHoldings == [m \in {} |-> [balance |-> 0, avg_price |-> 0, current_price |-> 0,
                             total_value |-> 0]]

NoPositions == [m \in {} |-> [entry_price |-> 0, volume |-> 0, sell_uuid |-> None]]

NoHoldCall == [done |-> FALSE, holdings |-> NoHoldings,
               positions_before |-> NoPositions, positions_after |-> NoPositions,
               sell_state |-> [m \in {} |-> ""],
               orders_before |-> 0, orders_after |-> 0]

HoldingsIdle ==
    /\ open_positions = NoPositions /\ sellOrders = << >>
    /\ krw_balance = 0 /\ holdCall = NoHoldCall

\* no sell-order check has run
NoSellReport == [n |-> 0, state |-> [m \in {} |-> ""]]

SellIdle == sellReport = NoSellReport

\* a web thread outside start and stop
IdleCaller == [op |-> "none", pc |-> "idle", target |-> 0, left |-> 0,
               ret |-> "none"]
LifeCallers == {"web1", "web2"}

AnalyzerIdle ==
    /\ keys_ok = FALSE /\ is_running = FALSE /\ stop_event = FALSE
    /\ threads = << >> /\ analysis_thread = None
    /\ callers = [c \in LifeCallers |-> [IdleCaller EXCEPT !.pc = "off"]]

\* TradingBot.stop has not been called
NoStop == [set |-> FALSE, order |-> None, at |-> 0]

StopIdle == stopSignal = NoStop

\* no market_buy call has been made
NoDemand == [pc |-> "idle", market |-> "", success |-> FALSE]

DemandIdle == demand = NoDemand

ScanIdle ==
    /\ scanOp = "none" /\ scanN = 0 /\ scanPc = "off" /\ scanIdx = 0
    /\ scanLog = << >> /\ market_info = << >> /\ monitored_coins = << >>

\* the buy_score section of config/default_settings.py (thresholds in
\* percent, momentum_threshold in hundredths of a percent)
DefaultScoreConf ==
    [strength_weight |-> 2, strength_threshold_low |-> 110,
     strength_threshold |-> 130,
     volume_spike_weight |-> 2, volume_spike_threshold_low |-> 150,
     volume_spike_threshold |-> 200,
     orderbook_weight |-> 1, orderbook_threshold |-> 130,
     momentum_weight |-> 1, momentum_threshold |-> 30,
     near_high_weight |-> 1, trend_reversal_weight |-> 1,
     williams_weight |-> 1, williams_enabled |-> TRUE,
     stochastic_weight |-> 1, stochastic_enabled |-> TRUE,
     macd_weight |-> 1, macd_enabled |-> TRUE]

\* market data in which no component fires
QuietSignals ==
    [len |-> 30, strength |-> 0, vol_ratio |-> 0, ob_ratio |-> 0, change |-> 0,
     near_high |-> FALSE, reversal |-> FALSE, williams |-> -50,
     stochastic |-> FALSE, macd_cross |-> FALSE]

ScoreInput(market, conf, sig) == [market |-> market, conf |-> conf, sig |-> sig]

ScoreIdle ==
    /\ scoreIn = ScoreInput("", DefaultScoreConf, QuietSignals)
    /\ scoreOut = 0 /\ scoreEvals = 0
    /\ scoreFirst = [in |-> ScoreInput("", DefaultScoreConf, QuietSignals),
                     out |-> 0]

NoTicks == [bot_p |-> 0, bot_q |-> 0, analyzer_p |-> 0, analyzer_q |-> 0,
            done |-> FALSE]

TickIdle ==
    /\ tickIn = [p |-> 0, q |-> 0]
    /\ tickOut = NoTicks

NoCacheOp == [op |-> "none", slot |-> "", max_age |-> 0, result |-> FALSE,
              after_update |-> FALSE]

CacheIdle ==
    /\ cache = [s \in {} |-> 0]
    /\ cacheNow = 0
    /\ cacheTicks = 0
    /\ cacheOut = NoCacheOp

NoOpenCall == [called |-> FALSE, market |-> "", held |-> FALSE,
               full |-> FALSE, ok |-> FALSE, reason |-> ""]

StateIdle ==
    /\ active_positions = {}
    /\ market_cooldowns = [m \in {} |-> 0]
    /\ stateNow = 0
    /\ openOut = NoOpenCall

NoProcess == [called |-> FALSE, market |-> "", held |-> FALSE,
              vetoed |-> FALSE, evaluated |-> FALSE, sold |-> FALSE,
              raised |-> ""]

TraderIdle ==
    /\ trPositions = {}
    /\ trOut = NoProcess

\* every part but one is idle
IdleExceptBuy ==
    /\ TargetIdle /\ RiskIdle /\ GatewayIdle /\ MonitorIdle /\ HoldingsIdle
    /\ SellIdle /\ AnalyzerIdle /\ StopIdle /\ DemandIdle /\ ScanIdle
    /\ ScoreIdle /\ TickIdle /\ CacheIdle /\ StateIdle /\ TraderIdle

IdleExceptTarget ==
    /\ BuyIdle /\ RiskIdle /\ GatewayIdle /\ MonitorIdle /\ HoldingsIdle
    /\ SellIdle /\ AnalyzerIdle /\ StopIdle /\ DemandIdle /\ ScanIdle
    /\ ScoreIdle /\ TickIdle /\ CacheIdle /\ StateIdle /\ TraderIdle

IdleExceptRisk ==
    /\ BuyIdle /\ TargetIdle /\ GatewayIdle /\ MonitorIdle /\ HoldingsIdle
    /\ SellIdle /\ AnalyzerIdle /\ StopIdle /\ DemandIdle /\ ScanIdle
    /\ ScoreIdle /\ TickIdle /\ CacheIdle /\ StateIdle /\ TraderIdle

IdleExceptGateway ==
    /\ BuyIdle /\ TargetIdle /\ RiskIdle /\ MonitorIdle /\ HoldingsIdle
    /\ SellIdle /\ AnalyzerIdle /\ StopIdle /\ DemandIdle /\ ScanIdle
    /\ ScoreIdle /\ TickIdle /\ CacheIdle /\ StateIdle /\ TraderIdle

IdleExceptMonitor ==
    /\ BuyIdle /\ TargetIdle /\ RiskIdle /\ GatewayIdle /\ HoldingsIdle
    /\ SellIdle /\ AnalyzerIdle /\ StopIdle /\ DemandIdle /\ ScanIdle
    /\ ScoreIdle /\ TickIdle /\ CacheIdle /\ StateIdle /\ TraderIdle

IdleExceptHoldings ==
    /\ BuyIdle /\ TargetIdle /\ RiskIdle /\ GatewayIdle /\ MonitorIdle
    /\ SellIdle /\ AnalyzerIdle /\ StopIdle /\ DemandIdle /\ ScanIdle
    /\ ScoreIdle /\ TickIdle /\ CacheIdle /\ StateIdle /\ TraderIdle

IdleExceptSell ==
    /\ TargetIdle /\ RiskIdle /\ GatewayIdle /\ MonitorIdle /\ HoldingsIdle
    /\ AnalyzerIdle /\ StopIdle /\ DemandIdle /\ ScanIdle /\ ScoreIdle
    /\ TickIdle /\ CacheIdle /\ StateIdle /\ TraderIdle

IdleExceptAnalyzer ==
    /\ TargetIdle /\ RiskIdle /\ GatewayIdle /\ MonitorIdle /\ HoldingsIdle
    /\ SellIdle /\ StopIdle /\ DemandIdle /\ ScanIdle /\ ScoreIdle
    /\ TickIdle /\ CacheIdle /\ StateIdle /\ TraderIdle

IdleExceptStop ==
    /\ BuyIdle /\ TargetIdle /\ RiskIdle /\ GatewayIdle /\ MonitorIdle
    /\ HoldingsIdle /\ SellIdle /\ AnalyzerIdle /\ DemandIdle /\ ScanIdle
    /\ ScoreIdle /\ TickIdle /\ CacheIdle /\ StateIdle /\ TraderIdle

IdleExceptDemand ==
    /\ TargetIdle /\ RiskIdle /\ GatewayIdle /\ MonitorIdle /\ HoldingsIdle
    /\ SellIdle /\ AnalyzerIdle /\ StopIdle /\ ScanIdle /\ ScoreIdle
    /\ TickIdle /\ CacheIdle /\ StateIdle /\ TraderIdle

IdleExceptScan ==
    /\ BuyIdle /\ TargetIdle /\ RiskIdle /\ GatewayIdle /\ MonitorIdle
    /\ HoldingsIdle /\ SellIdle /\ AnalyzerIdle /\ StopIdle /\ DemandIdle
    /\ ScoreIdle /\ TickIdle /\ CacheIdle /\ StateIdle /\ TraderIdle

IdleExceptScore ==
    /\ BuyIdle /\ TargetIdle /\ RiskIdle /\ GatewayIdle /\ MonitorIdle
    /\ HoldingsIdle /\ SellIdle /\ AnalyzerIdle /\ StopIdle /\ DemandIdle
    /\ ScanIdle /\ TickIdle /\ CacheIdle /\ StateIdle /\ TraderIdle

IdleExceptTick ==
    /\ BuyIdle /\ TargetIdle /\ RiskIdle /\ GatewayIdle /\ MonitorIdle
    /\ HoldingsIdle /\ SellIdle /\ AnalyzerIdle /\ StopIdle /\ DemandIdle
    /\ ScanIdle /\ ScoreIdle /\ CacheIdle /\ StateIdle /\ TraderIdle

IdleExceptCache ==
    /\ BuyIdle /\ TargetIdle /\ RiskIdle /\ GatewayIdle /\ MonitorIdle
    /\ HoldingsIdle /\ SellIdle /\ AnalyzerIdle /\ StopIdle /\ DemandIdle
    /\ ScanIdle /\ ScoreIdle /\ TickIdle /\ StateIdle /\ TraderIdle

IdleExceptState ==
    /\ BuyIdle /\ TargetIdle /\ RiskIdle /\ GatewayIdle /\ MonitorIdle
    /\ HoldingsIdle /\ SellIdle /\ AnalyzerIdle /\ StopIdle /\ DemandIdle
    /\ ScanIdle /\ ScoreIdle /\ TickIdle /\ CacheIdle /\ TraderIdle

IdleExceptTrader ==
    /\ BuyIdle /\ TargetIdle /\ GatewayIdle /\ MonitorIdle /\ HoldingsIdle
    /\ SellIdle /\ AnalyzerIdle /\ StopIdle /\ DemandIdle /\ ScanIdle
    /\ ScoreIdle /\ TickIdle /\ CacheIdle /\ StateIdle

----------------------------------------------------------------------------
\* The buy path

\* the order-placement keys of the settings (config/order_defaults.py)
BuySettings ==
    [bid1 : {"BID1", "BID1+"}, wait1 : 0..MaxWaitSec,
     bid2 : {"BID1", "ASK1"}, wait2 : 0..MaxWaitSec]

Init ==
    /\ buy_settings \in BuySettings
    /\ pc = "idle" /\ symbol = "KRW-A" /\ tier = 0 /\ book = NoBook
    /\ orders = << >> /\ cur = None /\ elapsed = 0
    /\ limRet = NoRet /\ buyRet = NoBuy /\ sellRet = NoRet /\ fill = NoFill
    /\ positions = [m \in {} |-> NoFill]
    /\ calls = << >> /\ tierRets = << >>
    /\ IdleExceptBuy

Next ==
    \/ \E s \in Markets : CheckBuySignal(s)
    \/ LimitSubmit
    \/ LimitWait
    \/ LimitCancel
    \/ BuyEscalate
    \/ MarketBuy
    \/ BuyReturned
    \/ SellSubmit
    \/ SellWait
    \/ SellCancel
    \/ UpdatePosition
    \/ NextSymbol
    \/ \E i \in 1..MaxOrders : ExchangeFill(i)

Spec == Init /\ [][Next]_vars

----------------------------------------------------------------------------
\* The protective-sell target as a function of its inputs

\* average fill prices, in hundredths of a won: on and off the tick grid, in
\* every band of _get_tick_size
AvgPrices == { 5, 999, 1000, 1234, 9990, 20000, 20050, 99900, 100000, 123456,
               1142000, 1142300, 9999000, 15000000, 60000000, 150000000,
               250000000 }

\* TP_PCT, in hundredths of a percent
TpPcts == { 0, 2, 18, 100 }

\* inputs whose products stay within TLC's integers
InRange(avg_price, tp_pct) == (avg_price \div 1000) * tp_pct < 1000000

TargetInit ==
    /\ IdleExceptTarget
    /\ tgtIn = [avg_price |-> 0, tp_pct |-> 0, min_ticks |-> 0]
    /\ tgtOut = None

\* one evaluation of the target price
ComputeTarget ==
    /\ \E a \in AvgPrices, tp \in TpPcts, mt \in 0..MaxMinTicks :
         /\ InRange(a, tp)
         /\ tgtIn' = [avg_price |-> a, tp_pct |-> tp, min_ticks |-> mt]
         /\ tgtOut' = TargetPrice(a, tp, mt)
    /\ UNCHANGED exceptTarget

TargetNext == ComputeTarget

SpecTarget == TargetInit /\ [][TargetNext]_vars

\* C6: the target is a whole multiple of the tick size of the average fill
\* price and is at least avg_price + MINIMUM_TICKS * tick.
C6_OnGridAboveFloor ==
    tgtOut # None =>
        LET t == TickSize(tgtIn.avg_price)
        IN  /\ tgtOut % t = 0
            /\ tgtOut >= tgtIn.avg_price + tgtIn.min_ticks * t

\* C6 witness: an average price off the grid whose raw target is below the floor
C6_Witness ==
    /\ tgtOut # None
    /\ tgtIn.avg_price % TickSize(tgtIn.avg_price) # 0
    /\ tgtIn.min_ticks >= 2
    /\ tgtOut = CeilDiv(tgtIn.avg_price + tgtIn.min_ticks * TickSize(tgtIn.avg_price),
                        TickSize(tgtIn.avg_price)) * TickSize(tgtIn.avg_price)
    /\ tgtOut > tgtIn.avg_price + tgtIn.min_ticks * TickSize(tgtIn.avg_price)

\* v is the least multiple of t that is >= lb
LeastOnGrid(v, lb, t) == v % t = 0 /\ v >= lb /\ v - t < lb

----------------------------------------------------------------------------
\* Properties of the buy path (checked under Spec)

\* positions of calls in the trace
BookFailures == { i \in 1..Len(calls) :
                    calls[i].op = "get_orderbook" /\ calls[i].kind = "none" }
BidAttempts  == { i \in 1..Len(calls) :
                    /\ calls[i].op \in {"place_order", "place_order_raised"}
                    /\ calls[i].kind \in {"limit_bid", "price_bid"} }
AcceptedLimitBids == { i \in 1..Len(calls) :
                         /\ calls[i].op = "place_order"
                         /\ calls[i].kind = "limit_bid"
                         /\ calls[i].id # None }
MarketBuysSent == { i \in 1..Len(calls) :
                      calls[i].op = "place_order" /\ calls[i].kind = "price_bid" }
BuyHasReturned == pc \in {"buy_return", "sell_submit", "sell_wait", "sell_cancel",
                          "update_position", "body_end"}

\* C1: when the order-book lookup of tier 1 or tier 2 fails, buy_with_settings
\* makes no API call after the failed lookup (no further limit tier, no market
\* buy), returns failure, and with a failure at tier 1 place_order was never
\* called.
C1_BookFailureStops ==
    \A i \in BookFailures :
        /\ i = Len(calls)
        /\ pc \in {"limit_return", "buy_return", "body_end"}
        /\ BuyHasReturned => (~buyRet.success /\ ~buyRet.raised /\ buyRet.error = "book")
        /\ i = 1 => BidAttempts = {}

\* C1 witness: the lookup of tier 2 failed, after tier 1 had placed an order,
\* and buy_with_settings has returned
C1_Witness ==
    /\ pc = "buy_return"
    /\ tier = 2
    /\ BookFailures # {}
    /\ AcceptedLimitBids # {}

\* C2: every bid submitted after an accepted limit bid of the same call (the
\* tier-2 limit order, the market buy) comes after a cancel_order for that
\* limit bid.
C2_CancelBeforeNextOrder ==
    \A j \in BidAttempts : \A i \in AcceptedLimitBids :
        i < j => \E k \in (i + 1)..(j - 1) :
                    calls[k].op = "cancel_order" /\ calls[k].id = calls[i].id

\* C2 witness: a tier-2 limit order was accepted after an accepted tier-1 order
C2_Witness ==
    \E i, j \in AcceptedLimitBids : i < j

\* C3: the second _place_limit_order is called exactly when the first one
\* returned without a fill and without the order-book error and
\* LIMIT_WAIT_SEC_2 > 0; with LIMIT_WAIT_SEC_2 = 0 the call goes from tier 1
\* straight to the market buy.
C3_SecondTierIff ==
    Len(tierRets) >= 1 =>
        LET r1 == tierRets[1]
            escalates == ~r1.success /\ r1.error # "book"
        IN  /\ (tier = 2) <=> (escalates /\ buy_settings.wait2 > 0)
            /\ (escalates /\ buy_settings.wait2 = 0) =>
                   /\ Len(tierRets) = 1
                   /\ pc = "market_buy" \/ \E i \in BidAttempts : calls[i].kind = "price_bid"

\* C3 witness: tier 2 is waiting for its order
C3_Witness ==
    /\ tier = 2
    /\ pc = "limit_wait"
    /\ Len(tierRets) = 1
    /\ buy_settings.wait2 > 0

\* every attempted limit tier ended without a fill and without the order-book error
TiersExhausted ==
    /\ Len(tierRets) >= 1
    /\ \A i \in 1..Len(tierRets) : ~tierRets[i].success /\ tierRets[i].error # "book"
    /\ Len(tierRets) = 2 \/ buy_settings.wait2 <= 0

\* C4 (the claim as stated): when every attempted limit tier ended without a
\* fill and without an order-book failure, exactly one market buy has been sent
\* to the exchange when buy_with_settings ends, and it ends with a return value
\* that is success exactly when that order is done.
C4_OneMarketBuy ==
    (BuyHasReturned /\ TiersExhausted) =>
        /\ Cardinality(MarketBuysSent) = 1
        /\ ~buyRet.raised
        /\ \A i \in MarketBuysSent :
              buyRet.success <=> (calls[i].id # None /\ orders[calls[i].id].state = "done")

\* C5 (the claim as stated): once the loop body has handled a fill with
\* non-zero executed volume, a limit sell for the executed volume at the target
\* price has been sent and the position of the market records that order's id.
C5_PositionRecordsSell ==
    (pc = "body_end" /\ fill.executed_volume.num # 0) =>
        /\ \E i \in 1..Len(calls) :
              calls[i].op = "place_order" /\ calls[i].kind = "limit_ask"
        /\ fill.sell_id # None =>
              /\ orders[fill.sell_id].volume = fill.executed_volume
              /\ orders[fill.sell_id].price = fill.target_price
        /\ symbol \in DOMAIN positions
        /\ positions[symbol].sell_order_uuid = fill.sell_id

----------------------------------------------------------------------------
\* RiskManager

Abs(x) == IF x < 0 THEN -x ELSE x

\* datetime.now().date(), as the number of the local day
Today(t) == t \div DayLen

\* risk_management.system of the configuration
RiskConfigs ==
    [max_daily_loss : {3}, consecutive_loss_limit : {2, 3}, cooldown_minutes : {2, 3}]

\* realized profit of one trade
Profits == {-2, -1, 0, 1}

\* Mutant of DailyLimitHit
DailyLimitStrict(dl, cfg) == Abs(dl) > cfg.max_daily_loss

\* _check_daily_loss, the comparison
DailyLimitHit(dl, cfg) == Abs(dl) >= cfg.max_daily_loss

\* Mutant of CheckDailyLoss: the daily figure is carried over midnight
CheckDailyLossNoRollover(dl, reset_day, t, cfg) ==
    [daily_loss |-> dl, last_reset_day |-> Today(t), hit |-> DailyLimitHit(dl, cfg)]

\* _check_daily_loss: the daily figure and the reset day it leaves, and its result
CheckDailyLoss(dl, reset_day, t, cfg) ==
    LET dl1 == IF Today(t) # reset_day THEN 0 ELSE dl
    IN  [daily_loss |-> dl1, last_reset_day |-> Today(t),
         hit |-> DailyLimitHit(dl1, cfg)]

\* Mutant of CheckConsecutiveLosses: the counter is kept after the cooldown
CheckConsecutiveLossesNoReset(losses, loss_time, t, cfg) ==
    [consecutive_losses |-> losses, last_loss_time |-> loss_time,
     hit |-> /\ losses >= cfg.consecutive_loss_limit
             /\ loss_time # None
             /\ t < loss_time + cfg.cooldown_minutes]

\* _check_consecutive_losses: the counter and the loss time it leaves, and its
\* result
CheckConsecutiveLosses(losses, loss_time, t, cfg) ==
    IF losses >= cfg.consecutive_loss_limit
    THEN IF loss_time # None /\ t < loss_time + cfg.cooldown_minutes
         THEN [consecutive_losses |-> losses, last_loss_time |-> loss_time,
               hit |-> TRUE]
         ELSE [consecutive_losses |-> 0, last_loss_time |-> None, hit |-> FALSE]
    ELSE [consecutive_losses |-> losses, last_loss_time |-> loss_time, hit |-> FALSE]

\* Mutant of TradeResult: a zero result counts as a loss
TradeResultZeroIsLoss(profit, dl, losses, loss_time, t) ==
    IF profit <= 0
    THEN [daily_loss |-> dl + profit, consecutive_losses |-> losses + 1,
          last_loss_time |-> t]
    ELSE [daily_loss |-> dl + profit, consecutive_losses |-> 0,
          last_loss_time |-> None]

\* update_trade_result: the fields it leaves
TradeResult(profit, dl, losses, loss_time, t) ==
    IF profit < 0
    THEN [daily_loss |-> dl + profit, consecutive_losses |-> losses + 1,
          last_loss_time |-> t]
    ELSE [daily_loss |-> dl + profit, consecutive_losses |-> 0,
          last_loss_time |-> None]

\* the call being made, with the state it finds
RiskCall(op, arg, ok, why) ==
    [op |-> op, arg |-> arg, at |-> now, pre_losses |-> consecutive_losses,
     pre_loss_time |-> last_loss_time, pre_daily |-> daily_loss,
     pre_day |-> last_reset_day, allowed |-> ok, reason |-> why]

RiskInit ==
    /\ IdleExceptRisk
    /\ risk_config \in RiskConfigs
    /\ consecutive_losses = 0 /\ last_loss_time = None /\ daily_loss = 0
    /\ now = 1
    /\ last_reset_day = Today(1)
    /\ riskCall = NoRiskCall
    /\ lossRun = 0

\* the wall clock advances
ClockTick ==
    /\ now < MaxTime
    /\ now' = now + 1
    /\ UNCHANGED <<risk_config, consecutive_losses, last_loss_time, daily_loss,
                   last_reset_day, riskCall, lossRun>>
    /\ UNCHANGED exceptRisk

\* RiskManager.can_trade(market): what it answers and leaves in the manager
CanTradeBody ==
    LET d == CheckDailyLoss(daily_loss, last_reset_day, now, risk_config)
        c == CheckConsecutiveLosses(consecutive_losses, last_loss_time, now,
                                    risk_config)
    IN  /\ daily_loss' = d.daily_loss
        /\ last_reset_day' = d.last_reset_day
        /\ IF d.hit
           THEN /\ riskCall' = RiskCall("can_trade", 0, FALSE, "daily")
                /\ UNCHANGED <<consecutive_losses, last_loss_time, lossRun>>
           ELSE /\ consecutive_losses' = c.consecutive_losses
                /\ last_loss_time' = c.last_loss_time
                /\ lossRun' = IF c.consecutive_losses = 0 /\ consecutive_losses # 0
                              THEN 0 ELSE lossRun
                /\ riskCall' = IF c.hit
                               THEN RiskCall("can_trade", 0, FALSE, "cooldown")
                               ELSE RiskCall("can_trade", 0, TRUE, "")
        /\ UNCHANGED <<risk_config, now>>

\* RiskManager.can_trade(market), called on its own
CanTrade ==
    /\ CanTradeBody
    /\ UNCHANGED exceptRisk

\* RiskManager.update_trade_result(profit)
UpdateTradeResult(profit) ==
    LET r == TradeResult(profit, daily_loss, consecutive_losses, last_loss_time, now)
    IN  /\ Abs(daily_loss + profit) <= MaxAbsDaily
        /\ consecutive_losses < MaxLosses
        /\ daily_loss' = r.daily_loss
        /\ consecutive_losses' = r.consecutive_losses
        /\ last_loss_time' = r.last_loss_time
        /\ lossRun' = IF profit < 0 THEN lossRun + 1 ELSE 0
        /\ riskCall' = RiskCall("update_trade_result", profit, FALSE, "")
        /\ UNCHANGED <<risk_config, last_reset_day, now>>
        /\ UNCHANGED exceptRisk

\* RiskManager.get_risk_metrics: cooldown_active is
\* bool(self.last_loss_time and self._check_consecutive_losses())
GetRiskMetrics ==
    LET c == CheckConsecutiveLosses(consecutive_losses, last_loss_time, now,
                                    risk_config)
    IN  /\ IF last_loss_time # None
           THEN /\ consecutive_losses' = c.consecutive_losses
                /\ last_loss_time' = c.last_loss_time
                /\ lossRun' = IF c.consecutive_losses = 0 /\ consecutive_losses # 0
                              THEN 0 ELSE lossRun
                /\ riskCall' = RiskCall("get_risk_metrics", 0, c.hit, "")
           ELSE /\ riskCall' = RiskCall("get_risk_metrics", 0, FALSE, "")
                /\ UNCHANGED <<consecutive_losses, last_loss_time, lossRun>>
        /\ UNCHANGED <<risk_config, daily_loss, last_reset_day, now>>
        /\ UNCHANGED exceptRisk

RiskNext ==
    \/ ClockTick
    \/ CanTrade
    \/ \E p \in Profits : UpdateTradeResult(p)
    \/ GetRiskMetrics

SpecRisk == RiskInit /\ [][RiskNext]_vars

----------------------------------------------------------------------------
\* Properties of the risk manager (checked under SpecRisk)

\* the daily figure the last call compared: the stored one, or 0 when the call
\* found the local day changed
ComparedDaily ==
    IF Today(riskCall.at) # riskCall.pre_day THEN 0 ELSE riskCall.pre_daily

DailyBreached == Abs(ComparedDaily) >= risk_config.max_daily_loss

InCooldown ==
    /\ riskCall.pre_losses >= risk_config.consecutive_loss_limit
    /\ riskCall.pre_loss_time # None
    /\ riskCall.at < riskCall.pre_loss_time + risk_config.cooldown_minutes

\* C8: can_trade refuses exactly when |daily_loss| >= max_daily_loss, or
\* consecutive_losses >= consecutive_loss_limit and the time is before
\* last_loss_time + cooldown; otherwise it allows; the daily-loss reason is
\* given when both hold.  daily_loss is the figure of the current day.
C8_CanTradeExactly ==
    riskCall.op = "can_trade" =>
        /\ ~riskCall.allowed <=> (DailyBreached \/ InCooldown)
        /\ DailyBreached => riskCall.reason = "daily"
        /\ (~DailyBreached /\ InCooldown) => riskCall.reason = "cooldown"
        /\ riskCall.allowed => riskCall.reason = ""

\* C8 witness: a call that found both the daily limit and the cooldown in force
C8_Witness ==
    /\ riskCall.op = "can_trade"
    /\ DailyBreached
    /\ InCooldown
    /\ riskCall.reason = "daily"

\* the cooldown window after the last loss had elapsed when the last call ran
CooldownElapsed ==
    /\ riskCall.pre_loss_time # None
    /\ riskCall.at >= riskCall.pre_loss_time + risk_config.cooldown_minutes

\* C9 (the claim as stated): a can_trade call made once the cooldown window
\* after the last loss has elapsed leaves the consecutive-loss counter at 0.
\* A cooldown window is taken to exist only for a counter at or above the limit.
C9_AnyCallResets ==
    ( /\ riskCall.op = "can_trade"
      /\ CooldownElapsed
      /\ riskCall.pre_losses >= risk_config.consecutive_loss_limit )
    => consecutive_losses = 0

\* C9 (amended): a can_trade call made once the cooldown window has elapsed
\* with the counter at or above the limit, and not refused for the daily-loss
\* limit, is allowed and leaves the counter at 0 and the loss time cleared.
C9_ResetAfterCooldown ==
    ( /\ riskCall.op = "can_trade"
      /\ CooldownElapsed
      /\ riskCall.pre_losses >= risk_config.consecutive_loss_limit
      /\ riskCall.reason # "daily" )
    => /\ consecutive_losses = 0
       /\ last_loss_time = None
       /\ riskCall.allowed

\* C9 witness: such a call, made on a counter at the limit
C9_Witness ==
    /\ riskCall.op = "can_trade"
    /\ CooldownElapsed
    /\ riskCall.pre_losses >= risk_config.consecutive_loss_limit
    /\ riskCall.pre_losses > 0
    /\ riskCall.allowed
    /\ consecutive_losses = 0

\* C10: update_trade_result(pnl) adds pnl to the daily figure; a negative pnl
\* adds one to the counter and stamps the loss time, a non-negative pnl sets the
\* counter to 0; the counter always equals the number of losses recorded since
\* the last non-negative result or cooldown reset.
C10_TradeResult ==
    /\ consecutive_losses = lossRun
    /\ riskCall.op = "update_trade_result" =>
          /\ daily_loss = riskCall.pre_daily + riskCall.arg
          /\ riskCall.arg < 0 =>
                /\ consecutive_losses = riskCall.pre_losses + 1
                /\ last_loss_time = riskCall.at
          /\ riskCall.arg >= 0 => consecutive_losses = 0

\* C10 witness: a loss recorded on top of an earlier one, after the counter had
\* been reset before
C10_Witness ==
    /\ riskCall.op = "update_trade_result"
    /\ riskCall.arg < 0
    /\ riskCall.pre_losses = 1
    /\ consecutive_losses = 2
    /\ Abs(daily_loss) > 2

\* the last call found the local date different from the stored reset date
DayChanged == Today(riskCall.at) # riskCall.pre_day

\* C11: a can_trade call that finds the local date different from the stored
\* reset date leaves the daily figure at zero and the reset date at today, and
\* is not refused for the daily limit; a refusal for the daily limit is always
\* based on a figure of a day that began at the stored reset date.
C11_DailyRollover ==
    riskCall.op = "can_trade" =>
        /\ last_reset_day = Today(riskCall.at)
        /\ DayChanged => (daily_loss = 0 /\ riskCall.reason # "daily")
        /\ riskCall.reason = "daily" =>
              (~DayChanged /\ Abs(riskCall.pre_daily) >= risk_config.max_daily_loss)

\* C11 witness: the first check of a new day, made on a breached figure of an
\* earlier day, allows trading
C11_Witness ==
    /\ riskCall.op = "can_trade"
    /\ DayChanged
    /\ Abs(riskCall.pre_daily) >= risk_config.max_daily_loss
    /\ riskCall.allowed
    /\ daily_loss = 0

----------------------------------------------------------------------------
\* MarketAnalyzer._send_request behind the rate_limit decorator.
\* Time is counted in ticks of 0.1 s.

\* the calls of the model: get_market_info(market) is
\* _send_request('GET', '/v1/ticker', {'markets': market})
Requests ==
    { [method |-> "GET",    endpoint |-> "/v1/ticker",   market |-> "KRW-FOO"],
      [method |-> "DELETE", endpoint |-> "/v1/order",    market |-> "KRW-BTC"] }

\* endpoint.startswith(public_prefixes)
IsPublic(endpoint) ==
    endpoint \in {"/v1/market/all", "/v1/ticker", "/v1/candles/minutes/1",
                  "/v1/orderbook", "/v1/trades/ticks"}

\* what the exchange (or the network) does with one HTTP send
Answers == {"200", "200_not_json", "404", "429", "timeout"}

\* the exception classes the body can raise, by the handler hierarchy of
\* requests: HTTPError and the transport errors are RequestExceptions
HTTPErrors        == {"HTTPError"}
RequestExceptions == HTTPErrors \cup {"Timeout", "JSONDecodeError"}
Exceptions        == RequestExceptions \cup {"ValueError", "Exception"}

\* Mutant of SendRequestExcept: no catch-all handler
SendRequestExceptNoCatchAll(exc) ==
    IF exc \in RequestExceptions
    THEN [raised |-> FALSE, value |-> "None"]
    ELSE [raised |-> TRUE, value |-> exc]

\* the except clauses of _send_request: what the call returns when its body
\* raised exc
SendRequestExcept(exc) ==
    IF exc \in HTTPErrors THEN [raised |-> FALSE, value |-> "None"]
    ELSE IF exc \in RequestExceptions THEN [raised |-> FALSE, value |-> "None"]
    ELSE IF exc \in Exceptions THEN [raised |-> FALSE, value |-> "None"]
    ELSE [raised |-> TRUE, value |-> exc]

\* the try block of _send_request up to the status check: whether an HTTP
\* request is sent, and the exception raised or the status received
SendRequestBody(req, token_ok, answer) ==
    IF ~IsPublic(req.endpoint) /\ ~token_ok
    THEN [sends |-> FALSE, exc |-> "Exception", status |-> ""]
    ELSE IF req.method \notin {"GET", "POST"}
    THEN [sends |-> FALSE, exc |-> "ValueError", status |-> ""]
    ELSE IF answer = "timeout"
    THEN [sends |-> TRUE, exc |-> "Timeout", status |-> "timeout"]
    ELSE IF answer = "429"
    THEN [sends |-> TRUE, exc |-> "", status |-> "429"]
    ELSE IF answer = "404"
    THEN [sends |-> TRUE, exc |-> "HTTPError", status |-> "404"]
    ELSE IF answer = "200_not_json"
    THEN [sends |-> TRUE, exc |-> "JSONDecodeError", status |-> "200"]
    ELSE [sends |-> TRUE, exc |-> "", status |-> "200"]

\* executions of the wrapped function still to start: the threads between the
\* entry of the wrapper and the call of the function
Pending ==
    Cardinality({t \in Threads :
                    th[t].pc \in {"entered", "stamp", "wait_calc", "sleeping",
                                  "cooloff"}})

GatewayInit ==
    /\ IdleExceptGateway
    /\ gwClock = 1 /\ last_called = None
    /\ th = [t \in Threads |-> IdleThread]
    /\ notFound = {} /\ execCount = 0 /\ lastExec = None

\* the latest time a running comparison refers to: the stamp of the decorator
\* and the current_time of the threads inside the wrapper
LatestReference ==
    LET refs == {last_called} \cup {th[t].current_time : t \in Threads}
    IN  CHOOSE r \in refs : \A q \in refs : q <= r

\* time passes: by one tick, or up to the end of a running sleep; once the
\* minimum interval has passed since every time a comparison refers to, only
\* the end of a sleep is waited for (a longer pause changes no comparison)
GwTick ==
    /\ \E c \in {gwClock + 1} \cup {th[t].wake : t \in Threads} :
          /\ c > gwClock /\ c <= MaxTick
          /\ c = gwClock + 1 =>
                \/ gwClock < LatestReference + MinRequestInterval
                \/ \E t \in Threads : th[t].wake = c
          /\ gwClock' = c
    /\ UNCHANGED <<last_called, th, notFound, execCount, lastExec>>
    /\ UNCHANGED exceptGateway

\* a thread calls self._send_request(method, endpoint, params): the wrapper
\* reads current_time = time.time()
CallSendRequest(t, r) ==
    /\ th[t].pc = "idle"
    /\ execCount + Pending < MaxExecs
    /\ th' = [th EXCEPT ![t] = [pc |-> "entered", req |-> r,
                                current_time |-> gwClock, wake |-> 0,
                                sent |-> 0, ret |-> NoResult]]
    /\ UNCHANGED <<gwClock, last_called, notFound, execCount, lastExec>>
    /\ UNCHANGED exceptGateway

\* wrapper: if func.__name__ not in last_called or
\*          current_time - last_called[func.__name__] >= seconds
RateLimitCheck(t) ==
    /\ th[t].pc = "entered"
    /\ th' = [th EXCEPT ![t].pc =
                 IF \/ last_called = None
                    \/ th[t].current_time - last_called >= MinRequestInterval
                 THEN "stamp" ELSE "wait_calc"]
    /\ UNCHANGED <<gwClock, last_called, notFound, execCount, lastExec>>
    /\ UNCHANGED exceptGateway

\* wrapper, first branch: last_called[...] = current_time; return func(...)
RateLimitStamp(t) ==
    /\ th[t].pc = "stamp"
    /\ last_called' = th[t].current_time
    /\ execCount' = execCount + 1
    /\ lastExec' = gwClock
    /\ th' = [th EXCEPT ![t].pc = "body"]
    /\ UNCHANGED <<gwClock, notFound>>
    /\ UNCHANGED exceptGateway

\* wrapper, second branch: wait_time = seconds - (current_time - last_called);
\* time.sleep(wait_time)
RateLimitSleep(t) ==
    /\ th[t].pc = "wait_calc"
    /\ th' = [th EXCEPT ![t].pc = "sleeping",
                        ![t].wake = gwClock + (MinRequestInterval
                                       - (th[t].current_time - last_called))]
    /\ UNCHANGED <<gwClock, last_called, notFound, execCount, lastExec>>
    /\ UNCHANGED exceptGateway

\* wrapper, second branch after the sleep: last_called[...] = time.time();
\* return func(...)
RateLimitWake(t) ==
    /\ th[t].pc = "sleeping"
    /\ gwClock >= th[t].wake
    /\ last_called' = gwClock
    /\ execCount' = execCount + 1
    /\ lastExec' = gwClock
    /\ th' = [th EXCEPT ![t].pc = "body", ![t].wake = 0]
    /\ UNCHANGED <<gwClock, notFound>>
    /\ UNCHANGED exceptGateway

\* the body of _send_request: the token, the HTTP request, the status check,
\* the except clauses
SendRequest(t) ==
    /\ th[t].pc = "body"
    /\ \E token_ok \in IF IsPublic(th[t].req.endpoint) THEN {TRUE} ELSE BOOLEAN,
          answer \in Answers :
         LET b == SendRequestBody(th[t].req, token_ok, answer)
         IN  /\ b.status = "429" => execCount + Pending < MaxExecs
             /\ notFound' = IF b.sends /\ b.status = "404"
                            THEN notFound \cup {th[t].req.market}
                            ELSE notFound
             /\ th' = [th EXCEPT ![t] =
                         IF b.status = "429"
                         THEN [@ EXCEPT !.pc = "cooloff", !.sent = @ + 1,
                                        !.wake = gwClock + RetryCoolOff]
                         ELSE [IdleThread EXCEPT
                                  !.sent = IF b.sends THEN th[t].sent + 1
                                           ELSE th[t].sent,
                                  !.ret = IF b.exc = ""
                                          THEN [raised |-> FALSE,
                                                value |-> "data"]
                                          ELSE SendRequestExcept(b.exc)]]
    /\ UNCHANGED <<gwClock, last_called, execCount, lastExec>>
    /\ UNCHANGED exceptGateway

\* after time.sleep(1): return self._send_request(method, endpoint, params),
\* which enters the wrapper again
RetryAfterCoolOff(t) ==
    /\ th[t].pc = "cooloff"
    /\ gwClock >= th[t].wake
    /\ th' = [th EXCEPT ![t].pc = "entered", ![t].current_time = gwClock,
                        ![t].wake = 0]
    /\ UNCHANGED <<gwClock, last_called, notFound, execCount, lastExec>>
    /\ UNCHANGED exceptGateway

GatewayNext ==
    \/ GwTick
    \/ \E t \in Threads, r \in Requests : CallSendRequest(t, r)
    \/ \E t \in Threads : RateLimitCheck(t)
    \/ \E t \in Threads : RateLimitStamp(t)
    \/ \E t \in Threads : RateLimitSleep(t)
    \/ \E t \in Threads : RateLimitWake(t)
    \/ \E t \in Threads : SendRequest(t)
    \/ \E t \in Threads : RetryAfterCoolOff(t)

SpecGateway == GatewayInit /\ [][GatewayNext]_vars

----------------------------------------------------------------------------
\* core/monitoring_coin.py: the monitoring-record file and its operations

\* a dict with key k removed / set
Without(d, k) == [m \in DOMAIN d \ {k} |-> d[m]]
With(d, k, v) == [m \in DOMAIN d \cup {k} |-> IF m = k THEN v ELSE d[m]]

\* amounts of a record and values of a holding, around min_value
Amounts == {0, MinValue - 1, MinValue}

\* one entry of the holdings dict: total_value may be missing (None), then the
\* amount is balance * avg_price
HoldingInfos ==
    [has_total : {TRUE}, total_value : {MinValue - 1, MinValue},
     balance : {1}, avg_price : {MinValue}]
    \cup
    [has_total : {FALSE}, total_value : {0},
     balance : {1}, avg_price : {MinValue - 1, MinValue}]

HoldingsDicts ==
    UNION { [S -> HoldingInfos] : S \in SUBSET MonMarkets }

\* sync_holdings: amount of one holding
HoldingAmount(info) ==
    IF info.has_total THEN info.total_value ELSE info.balance * info.avg_price

\* _load(): the dict read from the file; a missing file and a file json.load
\* fails on give {}
Load(file) == IF file.state = "complete" THEN file.data ELSE NoRecords

\* Mutant of SyncData: a holding worth exactly min_value is dropped
SyncDataBoundaryDropped(data, holdings, min_value) ==
    LET kept == {m \in DOMAIN holdings : HoldingAmount(holdings[m]) > min_value}
        low  == DOMAIN holdings \ kept
        gone == {m \in DOMAIN data \ DOMAIN holdings : data[m].amount >= min_value}
    IN  [m \in (DOMAIN data \cup kept) \ (low \cup gone) |->
            IF m \in kept
            THEN [amount |-> HoldingAmount(holdings[m]),
                  pre_sell |-> IF m \in DOMAIN data THEN data[m].pre_sell ELSE FALSE]
            ELSE data[m]]

\* sync_holdings: the dict after both loops
SyncData(data, holdings, min_value) ==
    LET kept == {m \in DOMAIN holdings : HoldingAmount(holdings[m]) >= min_value}
        low  == DOMAIN holdings \ kept
        gone == {m \in DOMAIN data \ DOMAIN holdings : data[m].amount >= min_value}
    IN  [m \in (DOMAIN data \cup kept) \ (low \cup gone) |->
            IF m \in kept
            THEN [amount |-> HoldingAmount(holdings[m]),
                  pre_sell |-> IF m \in DOMAIN data THEN data[m].pre_sell ELSE FALSE]
            ELSE data[m]]

MonitorInit ==
    /\ IdleExceptMonitor
    /\ monFile = NoFile /\ monPc = "idle" /\ monData = NoRecords
    /\ monPrev = NoFile /\ monOp = NoMonOp /\ monCrashed = FALSE

\* an operation has loaded the file and built data; it goes on to _save(data)
\* or returns
MonBegin(op, data, save) ==
    /\ monPc = "idle"
    /\ monOp' = op
    /\ monData' = data
    /\ monPrev' = monFile
    /\ monCrashed' = FALSE
    /\ monPc' = IF save THEN "save_open" ELSE "idle"
    /\ UNCHANGED monFile
    /\ UNCHANGED exceptMonitor

\* record_buy(market, amount, pre_sell)
RecordBuy(market, amount, pre_sell) ==
    MonBegin([NoMonOp EXCEPT !.op = "record_buy", !.market = market,
                             !.amount = amount, !.pre_sell = pre_sell],
             With(Load(monFile), market, [amount |-> amount, pre_sell |-> pre_sell]),
             TRUE)

\* update_pre_sell(market, pre_sell)
UpdatePreSell(market, pre_sell) ==
    LET data == Load(monFile)
    IN  MonBegin([NoMonOp EXCEPT !.op = "update_pre_sell", !.market = market,
                                 !.pre_sell = pre_sell],
                 IF market \in DOMAIN data
                 THEN With(data, market, [data[market] EXCEPT !.pre_sell = pre_sell])
                 ELSE With(data, market, [amount |-> 0, pre_sell |-> pre_sell]),
                 TRUE)

\* remove_market(market)
RemoveMarket(market) ==
    LET data == Load(monFile)
    IN  MonBegin([NoMonOp EXCEPT !.op = "remove_market", !.market = market],
                 Without(data, market),
                 market \in DOMAIN data)

\* sync_holdings(holdings, min_value=5000)
SyncHoldings(holdings) ==
    LET data == Load(monFile)
        sync == SyncData(data, holdings, MinValue)
    IN  MonBegin([NoMonOp EXCEPT !.op = "sync_holdings", !.holdings = holdings],
                 sync,
                 sync # data)

\* _save: open(FILE_PATH, 'w') creates or truncates the file
SaveOpen ==
    /\ monPc = "save_open"
    /\ monFile' = [state |-> "empty", data |-> NoRecords]
    /\ monPc' = "save_dump"
    /\ UNCHANGED <<monData, monPrev, monOp, monCrashed>>
    /\ UNCHANGED exceptMonitor

\* _save: json.dump has written a part of the text through to the file
SaveDump ==
    /\ monPc = "save_dump"
    /\ monFile' = [state |-> "partial", data |-> NoRecords]
    /\ monPc' = "save_close"
    /\ UNCHANGED <<monData, monPrev, monOp, monCrashed>>
    /\ UNCHANGED exceptMonitor

\* _save: the with block ends, the rest of the text is flushed, the file closed
SaveClose ==
    /\ monPc \in {"save_dump", "save_close"}
    /\ monFile' = [state |-> "complete", data |-> monData]
    /\ monPc' = "idle"
    /\ UNCHANGED <<monData, monPrev, monOp, monCrashed>>
    /\ UNCHANGED exceptMonitor

\* the process dies inside _save and is started again
MonCrash ==
    /\ monPc \in {"save_open", "save_dump", "save_close"}
    /\ monCrashed' = TRUE
    /\ monPc' = "idle"
    /\ UNCHANGED <<monFile, monData, monPrev, monOp>>
    /\ UNCHANGED exceptMonitor

MonitorNext ==
    \/ \E m \in MonMarkets, a \in Amounts, p \in BOOLEAN : RecordBuy(m, a, p)
    \/ \E m \in MonMarkets, p \in BOOLEAN : UpdatePreSell(m, p)
    \/ \E m \in MonMarkets : RemoveMarket(m)
    \/ \E h \in HoldingsDicts : SyncHoldings(h)
    \/ SaveOpen
    \/ SaveDump
    \/ SaveClose
    \/ MonCrash

SpecMonitor == MonitorInit /\ [][MonitorNext]_vars

----------------------------------------------------------------------------
\* MarketAnalyzer.get_holdings against the exchange account.  The answers of
\* _send_request('GET', '/v1/accounts') and of get_market_info(market) are
\* inputs of the call.

HoldMarkets == {"KRW-UNI"}

\* the non-KRW rows of /v1/accounts: balance and avg_buy_price by market
AccountRows == [balance : {0, 1}, avg_buy_price : {0, 11420}]

AccountAnswers == UNION { [S -> AccountRows] : S \in SUBSET HoldMarkets }

\* ticker['trade_price'] by market; None: get_market_info returned None
TickerAnswers == [HoldMarkets -> {None, 4000, 11420}]

\* the dict built by the loop of get_holdings
HoldingsOf(accounts, tickers) ==
    LET held == {m \in DOMAIN accounts :
                    accounts[m].balance > 0 /\ tickers[m] # None}
    IN  [m \in held |->
            [balance |-> accounts[m].balance,
             avg_price |-> accounts[m].avg_buy_price,
             current_price |-> tickers[m],
             total_value |-> accounts[m].balance * tickers[m]]]

\* the loop of get_holdings raises: profit_loss divides by avg_price
HoldingsRaises(accounts, tickers) ==
    LET h == HoldingsOf(accounts, tickers)
    IN  \E m \in DOMAIN h : h[m].avg_price = 0

\* get_holdings: its return value; {} when the accounts request failed
\* (not accounts) or the loop raised
GetHoldingsResult(ok, accounts, tickers) ==
    IF ~ok \/ HoldingsRaises(accounts, tickers)
    THEN NoHoldings
    ELSE HoldingsOf(accounts, tickers)

HoldingsInit ==
    /\ IdleExceptHoldings
    /\ open_positions = NoPositions /\ sellOrders = << >>
    /\ krw_balance = 0 /\ holdCall = NoHoldCall

\* a position is opened with its protective sell resting on the exchange
\* (the tests assign ma.open_positions)
TrackPosition(m) ==
    /\ m \notin DOMAIN open_positions
    /\ Len(sellOrders) < MaxSellOrders
    /\ sellOrders' = Append(sellOrders, [market |-> m, state |-> "wait"])
    /\ open_positions' =
          [k \in DOMAIN open_positions \cup {m} |->
              IF k = m
              THEN [entry_price |-> 11420, volume |-> 1,
                    sell_uuid |-> Len(sellOrders) + 1]
              ELSE open_positions[k]]
    /\ UNCHANGED <<krw_balance, holdCall>>
    /\ UNCHANGED exceptHoldings

\* the exchange fills or cancels a resting sell order
SellOrderEnds(i, s) ==
    /\ i \in 1..Len(sellOrders)
    /\ sellOrders[i].state = "wait"
    /\ sellOrders' = [sellOrders EXCEPT ![i].state = s]
    /\ UNCHANGED <<open_positions, krw_balance, holdCall>>
    /\ UNCHANGED exceptHoldings

\* a position is closed and forgotten
ClosePosition(m) ==
    /\ m \in DOMAIN open_positions
    /\ open_positions' = [k \in DOMAIN open_positions \ {m} |-> open_positions[k]]
    /\ UNCHANGED <<sellOrders, krw_balance, holdCall>>
    /\ UNCHANGED exceptHoldings

\* MarketAnalyzer.get_holdings()
GetHoldings ==
    /\ \E ok \in BOOLEAN, accounts \in AccountAnswers, tickers \in TickerAnswers,
          krw \in {0, 7000} :
         /\ krw_balance' \in
              IF ~ok THEN {krw_balance}
              ELSE IF HoldingsRaises(accounts, tickers) THEN {krw_balance, krw}
              ELSE {krw}
         /\ holdCall' =
              [done |-> TRUE,
               holdings |-> GetHoldingsResult(ok, accounts, tickers),
               positions_before |-> open_positions,
               positions_after |-> open_positions,
               sell_state |-> [m \in DOMAIN open_positions |->
                                  sellOrders[open_positions[m].sell_uuid].state],
               orders_before |-> Len(sellOrders),
               orders_after |-> Len(sellOrders)]
    /\ UNCHANGED <<open_positions, sellOrders>>
    /\ UNCHANGED exceptHoldings

HoldingsNext ==
    \/ \E m \in HoldMarkets : TrackPosition(m)
    \/ \E i \in 1..MaxSellOrders, s \in {"done", "cancel"} : SellOrderEnds(i, s)
    \/ \E m \in HoldMarkets : ClosePosition(m)
    \/ GetHoldings

SpecHoldings == HoldingsInit /\ [][HoldingsNext]_vars

----------------------------------------------------------------------------
\* Properties of the exchange gateway (checked under SpecGateway)

\* C12: one _send_request invocation performs at most two HTTP sends (the
\* request and a single retry after a 429 answer).
C12_AtMostTwoSends ==
    \A t \in Threads : th[t].sent <= 2

C14_NoRequeryOfInvalid ==
    [][\A t \in Threads :
          (th[t].pc = "body" /\ th'[t].sent > th[t].sent) =>
              th[t].req.market \notin notFound]_vars

\* C15: any two successive executions of _send_request start at least the
\* minimum interval apart, whichever threads make them.
C15_MinSpacing ==
    [][(execCount' > execCount /\ lastExec # None) =>
          lastExec' - lastExec >= MinRequestInterval]_vars

----------------------------------------------------------------------------
\* Properties of the monitoring file (checked under SpecMonitor)

\* sync_holdings has returned
SyncDone == monOp.op = "sync_holdings" /\ monPc = "idle" /\ ~monCrashed

\* C16: after sync_holdings(holdings) the file has no record for a held market
\* worth less than min_value and has a record for every held market worth
\* min_value or more.
C16_SyncKeepsMaterial ==
    SyncDone =>
        \A m \in DOMAIN monOp.holdings :
            /\ HoldingAmount(monOp.holdings[m]) < MinValue
                  => m \notin DOMAIN Load(monFile)
            /\ HoldingAmount(monOp.holdings[m]) >= MinValue
                  => m \in DOMAIN Load(monFile)

\* C16 witness: a sync that dropped the record of a holding below min_value
\* and created the record of a holding worth exactly min_value
C16_Witness ==
    /\ SyncDone
    /\ \E m \in DOMAIN monOp.holdings :
          /\ HoldingAmount(monOp.holdings[m]) < MinValue
          /\ m \in DOMAIN Load(monPrev)
          /\ m \notin DOMAIN Load(monFile)
    /\ \E m \in DOMAIN monOp.holdings :
          /\ HoldingAmount(monOp.holdings[m]) = MinValue
          /\ m \notin DOMAIN Load(monPrev)
          /\ m \in DOMAIN Load(monFile)

\* C17: after sync_holdings(holdings) every market with a record is a key of
\* holdings.
C17_OnlyHeldRecorded ==
    SyncDone => DOMAIN Load(monFile) \subseteq DOMAIN monOp.holdings

\* C18: the file never holds a record for a market of the excluded-coin list.
C18_ExcludedNeverWritten ==
    \A m \in DOMAIN Load(monFile) : m \notin ExcludedCoins

\* C19: after a crash inside a save the file holds the complete previous
\* content or the complete new content.
C19_SaveAtomic ==
    monCrashed =>
        \/ monFile = monPrev
        \/ monFile = [state |-> "complete", data |-> monData]

----------------------------------------------------------------------------
\* Properties of the holdings query (checked under SpecHoldings)

\* get_holdings placed a sell order for market m
SellPlaced(m) ==
    \E i \in (holdCall.orders_before + 1)..holdCall.orders_after :
        sellOrders[i].market = m

\* C20: during get_holdings a protective sell is placed for a tracked position
\* of a materially held market exactly when the recorded sell order is not
\* waiting, and the position then records the new order.
C20_PreSellIffInactive ==
    holdCall.done =>
        \A m \in DOMAIN holdCall.holdings \cap DOMAIN holdCall.positions_before :
            holdCall.holdings[m].total_value >= MinHoldingValue =>
                /\ SellPlaced(m) <=> holdCall.sell_state[m] # "wait"
                /\ SellPlaced(m) =>
                      holdCall.positions_after[m].sell_uuid > holdCall.orders_before

----------------------------------------------------------------------------
\* The sell-order check of the trading cycle (TradingBot._update_sell_orders)
\*
\* The check is taken as a handler over every content of
\* OneMinStrategy.positions and every state of the protective sell orders:
\* SellInit draws both.  (TradingBot itself never stores a sell_order_uuid,
\* see UpdatePosition.)

MaxOpenSells  == 2    \* protective sell orders known to the exchange
MaxSellChecks == 2    \* runs of _update_sell_orders

OrderStates == {"wait", "done", "cancel"}

\* a protective limit sell in a given state
ProtectiveSell(st) ==
    [NewOrder("ask", "limit", 100 * PriceScale, Volume(1, 1)) EXCEPT
        !.state = st,
        !.executed_volume = IF st = "done" THEN Volume(1, 1) ELSE NoVolume]

\* an entry of OneMinStrategy.positions with a recorded sell order (or None)
PositionEntry(uuid) ==
    [entry_price |-> 100 * PriceScale, amount |-> Volume(1, 1),
     highest_price |-> 100 * PriceScale, sell_order_uuid |-> uuid]

PositionDicts ==
    UNION {[D -> {PositionEntry(u) : u \in 0..MaxOpenSells}] : D \in SUBSET Markets}

\* UpbitExchange.get_order_info: the order as the exchange holds it, None
\* when the request failed; only the state is read
GetOrderInfo(uuid, ok) == IF ok THEN orders[uuid].state ELSE "none"

\* a position is removed on every final state of its order
SellOrderEnded(state) == state \in {"done", "cancel"}

\* the removal test of _update_sell_orders
SellOrderDone(state) == state = "done"

SellInit ==
    /\ buy_settings = [bid1 |-> "BID1", wait1 |-> 0, bid2 |-> "BID1", wait2 |-> 0]
    /\ pc = "off" /\ symbol = "KRW-A" /\ tier = 0 /\ book = NoBook
    /\ orders \in [1..MaxOpenSells -> {ProtectiveSell(st) : st \in OrderStates}]
    /\ cur = None /\ elapsed = 0
    /\ limRet = NoRet /\ buyRet = NoBuy /\ sellRet = NoRet /\ fill = NoFill
    /\ positions \in PositionDicts
    /\ calls = << >> /\ tierRets = << >>
    /\ sellReport = NoSellReport
    /\ IdleExceptSell

\* one run of _update_sell_orders over list(positions.keys()); ok[s] tells
\* whether the get_order_info request for s succeeds
UpdateSellOrders(ok) ==
    /\ sellReport.n < MaxSellChecks
    /\ LET report == [s \in DOMAIN positions |->
                         IF positions[s].sell_order_uuid = None
                         THEN "skipped"
                         ELSE GetOrderInfo(positions[s].sell_order_uuid, ok[s])]
           kept == {s \in DOMAIN positions : ~SellOrderDone(report[s])}
       IN  /\ positions' = [s \in kept |-> positions[s]]
           /\ sellReport' = [n |-> sellReport.n + 1, state |-> report]
    /\ UNCHANGED <<buy_settings, pc, symbol, tier, book, orders, cur, elapsed,
                   limRet, buyRet, sellRet, fill, calls, tierRets>>
    /\ UNCHANGED exceptSell

SellNext ==
    \/ \E ok \in [DOMAIN positions -> BOOLEAN] : UpdateSellOrders(ok)
    \/ \E i \in 1..Len(orders) : ExchangeFill(i)

SpecSell == SellInit /\ [][SellNext]_vars

----------------------------------------------------------------------------
\* The life cycle of the analysis loop (MarketAnalyzer.start, stop and
\* _analysis_task), driven by two threads of the web layer.
\*
\* Every read or write of is_running, stop_event and analysis_thread is a
\* step of its own.  Time is counted in seconds: Tick advances it only when
\* no thread has a step to take at the current instant (a finished wait, a
\* loop test, a step of start or stop); an iteration of the loop and a join
\* take time.

MaxThreads == 2       \* analysis threads created in one behaviour

MonitoringInterval == 10    \* self.monitoring_interval
BackOffSec         == 5     \* stop_event.wait(5)
StartJoinTimeout   == 2     \* join(timeout=2.0) in start
StopJoinTimeout    == 5     \* join(timeout=5.0) in stop

\* threading.Thread(target=self._analysis_task) right after start()
NewThread == [pc |-> "check", left |-> 0, sig |-> FALSE]

Alive(t) == t # None /\ threads[t].pc # "exited"

Waiting(t) == threads[t].pc \in {"waiting", "backoff"}

\* stop_event.wait(left): the wait ends when the event is set or the time is
\* over
WaitOver(signalled, left) == signalled \/ left = 0

\* join(): the join ends when the thread has ended
JoinOverNoTimeout(alive, left) == ~alive

\* join(timeout=left): the join ends when the thread has ended or the time is
\* over
JoinOver(alive, left) == ~alive \/ left = 0

\* stop() sets the event: the threads inside a wait at that instant are
\* marked (history)
Signalled(ths) ==
    [t \in DOMAIN ths |->
        IF ths[t].pc \in {"waiting", "backoff"}
        THEN [ths[t] EXCEPT !.sig = TRUE] ELSE ths[t]]

AnalyzerInit ==
    /\ buy_settings = [bid1 |-> "BID1", wait1 |-> 0, bid2 |-> "BID1", wait2 |-> 0]
    /\ pc = "off" /\ symbol = "KRW-A" /\ tier = 0 /\ book = NoBook
    /\ orders = <<ProtectiveSell("wait")>>
    /\ cur = None /\ elapsed = 0
    /\ limRet = NoRet /\ buyRet = NoBuy /\ sellRet = NoRet /\ fill = NoFill
    /\ positions = [m \in {} |-> NoFill]
    /\ calls = << >> /\ tierRets = << >>
    /\ keys_ok \in BOOLEAN
    /\ is_running = FALSE /\ stop_event = FALSE
    /\ threads = << >> /\ analysis_thread = None
    /\ callers = [c \in LifeCallers |-> IdleCaller]
    /\ IdleExceptAnalyzer

LifeFrame == UNCHANGED <<buyVars, exceptAnalyzer>>

Goto(c, p) == callers' = [callers EXCEPT ![c].pc = p]

Return(c, r) ==
    callers' = [callers EXCEPT ![c] = [IdleCaller EXCEPT !.op = callers[c].op,
                                                         !.ret = r]]

\* ---- start() ----

\* the first statement after an API-key test that passed or failed (the
\* raise ValueError leads into the except branch)
AfterKeys == IF keys_ok THEN "s_clear" ELSE "s_exc_flag"

Enter(c, op, p) ==
    callers' = [callers EXCEPT ![c] = [IdleCaller EXCEPT !.op = op, !.pc = p]]

\* the call and if self.is_running: thread dead -> reset the flags;
\* alive -> return False
StartCheck(c) ==
    /\ callers[c].pc = "idle"
    /\ Len(threads) < MaxThreads
    /\ IF ~is_running THEN Enter(c, "start", AfterKeys)
       ELSE IF ~Alive(analysis_thread) THEN Enter(c, "start", "s_reset_flag")
       ELSE callers' = [callers EXCEPT ![c] = [IdleCaller EXCEPT
                                       !.op = "start", !.ret = "False"]]
    /\ UNCHANGED <<keys_ok, is_running, stop_event, threads, analysis_thread>>
    /\ LifeFrame

StartResetFlag(c) ==
    /\ callers[c].pc = "s_reset_flag"
    /\ is_running' = FALSE
    /\ Goto(c, "s_reset_event")
    /\ UNCHANGED <<keys_ok, stop_event, threads, analysis_thread>>
    /\ LifeFrame

\* stop_event.set(); the join of the dead thread returns at once
StartResetEvent(c) ==
    /\ callers[c].pc = "s_reset_event"
    /\ stop_event' = TRUE
    /\ Goto(c, AfterKeys)
    /\ UNCHANGED <<keys_ok, is_running, threads, analysis_thread>>
    /\ LifeFrame

StartClear(c) ==
    /\ callers[c].pc = "s_clear"
    /\ stop_event' = FALSE
    /\ Goto(c, "s_flag")
    /\ UNCHANGED <<keys_ok, is_running, threads, analysis_thread>>
    /\ LifeFrame

StartFlag(c) ==
    /\ callers[c].pc = "s_flag"
    /\ is_running' = TRUE
    /\ Goto(c, "s_old")
    /\ UNCHANGED <<keys_ok, stop_event, threads, analysis_thread>>
    /\ LifeFrame

\* an earlier thread that is still alive is signalled and joined for 2 s
StartOld(c) ==
    /\ callers[c].pc = "s_old"
    /\ IF Alive(analysis_thread)
       THEN /\ stop_event' = TRUE
            /\ callers' = [callers EXCEPT ![c].pc = "s_join",
                                          ![c].target = analysis_thread,
                                          ![c].left = StartJoinTimeout]
       ELSE /\ Goto(c, "s_spawn")
            /\ UNCHANGED stop_event
    /\ UNCHANGED <<keys_ok, is_running, threads, analysis_thread>>
    /\ LifeFrame

StartJoin(c) ==
    /\ callers[c].pc = "s_join"
    /\ JoinOver(Alive(callers[c].target), callers[c].left)
    /\ callers' = [callers EXCEPT ![c].pc = "s_spawn", ![c].left = 0]
    /\ UNCHANGED <<keys_ok, is_running, stop_event, threads, analysis_thread>>
    /\ LifeFrame

\* the new thread is created and started; return True
StartSpawn(c) ==
    /\ callers[c].pc = "s_spawn"
    /\ threads' = Append(threads, NewThread)
    /\ analysis_thread' = Len(threads) + 1
    /\ Return(c, "True")
    /\ UNCHANGED <<keys_ok, is_running, stop_event>>
    /\ LifeFrame

\* except Exception: is_running = False; stop_event.set(); raise RuntimeError
StartExceptFlag(c) ==
    /\ callers[c].pc = "s_exc_flag"
    /\ is_running' = FALSE
    /\ Goto(c, "s_exc_event")
    /\ UNCHANGED <<keys_ok, stop_event, threads, analysis_thread>>
    /\ LifeFrame

StartExceptRaise(c) ==
    /\ callers[c].pc = "s_exc_event"
    /\ stop_event' = TRUE
    /\ Return(c, "RuntimeError")
    /\ UNCHANGED <<keys_ok, is_running, threads, analysis_thread>>
    /\ LifeFrame

\* ---- stop() ----

\* the call and if not self.is_running: return True
StopCheck(c) ==
    /\ callers[c].pc = "idle"
    /\ IF is_running THEN Enter(c, "stop", "t_flag")
       ELSE callers' = [callers EXCEPT ![c] = [IdleCaller EXCEPT
                                       !.op = "stop", !.ret = "True"]]
    /\ UNCHANGED <<keys_ok, is_running, stop_event, threads, analysis_thread>>
    /\ LifeFrame

StopFlag(c) ==
    /\ callers[c].pc = "t_flag"
    /\ is_running' = FALSE
    /\ Goto(c, "t_event")
    /\ UNCHANGED <<keys_ok, stop_event, threads, analysis_thread>>
    /\ LifeFrame

\* stop_event.set(); a live thread is joined for 5 s; the cache reset and
\* return True follow
StopEvent(c) ==
    /\ callers[c].pc = "t_event"
    /\ stop_event' = TRUE
    /\ threads' = Signalled(threads)
    /\ IF Alive(analysis_thread)
       THEN callers' = [callers EXCEPT ![c].pc = "t_join",
                                       ![c].target = analysis_thread,
                                       ![c].left = StopJoinTimeout]
       ELSE Return(c, "True")
    /\ UNCHANGED <<keys_ok, is_running, analysis_thread>>
    /\ LifeFrame

StopJoin(c) ==
    /\ callers[c].pc = "t_join"
    /\ JoinOver(Alive(callers[c].target), callers[c].left)
    /\ Return(c, "True")
    /\ UNCHANGED <<keys_ok, is_running, stop_event, threads, analysis_thread>>
    /\ LifeFrame

\* ---- _analysis_task ----

\* while not self.stop_event.is_set()
LoopTest(t) ==
    /\ threads[t].pc = "check"
    /\ threads' = [threads EXCEPT
                      ![t] = IF stop_event THEN [@ EXCEPT !.pc = "exited", !.sig = FALSE]
                             ELSE [@ EXCEPT !.pc = "iterating"]]
    /\ UNCHANGED <<keys_ok, is_running, stop_event, analysis_thread, callers>>
    /\ LifeFrame

\* the body up to the wait: stop_event.wait(monitoring_interval) when it ran
\* through; after an exception stop_event.wait(5) unless the event is set
IterationEnd(t, ok) ==
    /\ threads[t].pc = "iterating"
    /\ threads' = [threads EXCEPT ![t] =
          IF ok THEN [@ EXCEPT !.pc = "waiting", !.left = MonitoringInterval]
          ELSE IF stop_event THEN [@ EXCEPT !.pc = "check"]
          ELSE [@ EXCEPT !.pc = "backoff", !.left = BackOffSec]]
    /\ UNCHANGED <<keys_ok, is_running, stop_event, analysis_thread, callers>>
    /\ LifeFrame

\* the wait returns
WaitReturn(t) ==
    /\ Waiting(t)
    /\ WaitOver(stop_event, threads[t].left)
    /\ threads' = [threads EXCEPT ![t].pc = "check", ![t].left = 0]
    /\ UNCHANGED <<keys_ok, is_running, stop_event, analysis_thread, callers>>
    /\ LifeFrame

\* ---- time ----

Joining(c) == callers[c].pc \in {"s_join", "t_join"}

\* one second passes
LifeTick ==
    /\ \A t \in DOMAIN threads :
          /\ threads[t].pc # "check"
          /\ Waiting(t) => ~WaitOver(stop_event, threads[t].left)
    /\ \A c \in LifeCallers :
          \/ callers[c].pc = "idle"
          \/ Joining(c) /\ ~JoinOver(Alive(callers[c].target), callers[c].left)
    /\ \/ \E t \in DOMAIN threads : Waiting(t)
       \/ \E c \in LifeCallers : Joining(c)
    /\ threads' = [t \in DOMAIN threads |->
                      IF Waiting(t) THEN [threads[t] EXCEPT !.left = @ - 1]
                      ELSE threads[t]]
    /\ callers' = [c \in LifeCallers |->
                      IF Joining(c) THEN [callers[c] EXCEPT !.left = @ - 1]
                      ELSE callers[c]]
    /\ UNCHANGED <<keys_ok, is_running, stop_event, analysis_thread>>
    /\ LifeFrame

\* the exchange fills an outstanding order
LifeFill(i) ==
    /\ \A c \in LifeCallers : callers[c].pc # "off"
    /\ ExchangeFill(i)

AnalyzerNext ==
    \/ \E c \in LifeCallers :
          \/ StartCheck(c) \/ StartResetFlag(c) \/ StartResetEvent(c)
          \/ StartClear(c) \/ StartFlag(c) \/ StartOld(c) \/ StartJoin(c)
          \/ StartSpawn(c) \/ StartExceptFlag(c) \/ StartExceptRaise(c)
          \/ StopCheck(c) \/ StopFlag(c) \/ StopEvent(c) \/ StopJoin(c)
    \/ \E t \in DOMAIN threads :
          \/ LoopTest(t)
          \/ \E ok \in BOOLEAN : IterationEnd(t, ok)
          \/ WaitReturn(t)
    \/ LifeTick
    \/ \E i \in 1..Len(orders) : LifeFill(i)

SpecAnalyzer == AnalyzerInit /\ [][AnalyzerNext]_vars

\* C22: a thread that was inside its wait (or its back-off) when stop()
\* set the event spends no further second in the wait and starts no further
\* iteration.
C22_SignalledWaitExits ==
    [][\A t \in DOMAIN threads :
          threads[t].sig =>
              /\ threads'[t].left = threads[t].left \/ threads'[t].left = 0
              /\ threads'[t].pc # "iterating"]_vars

\* a step of a stop() call
StopStep(c) == callers'[c] # callers[c] /\ callers'[c].op = "stop"

\* C23: no step of stop() changes an exchange order or adds one, the step
\* that signals sets the event, and the join of stop() never lasts longer
\* than its timeout.
C23_StopFrame ==
    [][/\ \A c \in LifeCallers :
             StopStep(c) =>
                 /\ orders' = orders
                 /\ callers[c].pc = "t_event" => stop_event'
       /\ \A c \in LifeCallers :
             callers'[c].pc = "t_join" =>
                 callers'[c].left \in 0..StopJoinTimeout]_vars

\* stop() returned after its join timed out: the thread is still alive, the
\* event is set and the outstanding order is still waiting
C23_Witness ==
    \E c \in LifeCallers :
        /\ callers[c].op = "stop" /\ callers[c].ret = "True"
        /\ Alive(analysis_thread)
        /\ stop_event
        /\ orders[1].state = "wait"

\* C27: no call of start() or stop() ends with an exception.
C27_NeverRaises ==
    \A c \in LifeCallers : callers[c].ret # "RuntimeError"

----------------------------------------------------------------------------
\* The buy path with a stop of the bot (TradingBot.stop) while the scan
\* thread waits for an order fill

\* the thread polls in _wait_for_order
InPollLoop == pc \in {"limit_wait", "sell_wait"}

\* TradingBot.stop: self.is_running = False, within the first MaxWaitSec
\* seconds of a wait
BotStop ==
    /\ InPollLoop /\ elapsed <= MaxWaitSec
    /\ ~stopSignal.set
    /\ stopSignal' = [set |-> TRUE, order |-> cur, at |-> elapsed]
    /\ UNCHANGED exceptStop

StopNext == Next \/ BotStop

SpecStop == Init /\ [][StopNext]_vars

\* C24: a wait for an order fill that was running when the bot was stopped
\* ends with the poll after the one in progress: its loop does not reach a
\* second poll after the stop.
C24_PollEndsAfterStop ==
    (stopSignal.set /\ InPollLoop /\ cur = stopSignal.order) =>
        elapsed <= stopSignal.at + 1

----------------------------------------------------------------------------
\* The buy path of the scan thread together with one on-demand
\* MarketAnalyzer.market_buy call of a web thread

DemandFrame ==
    UNCHANGED <<buy_settings, pc, symbol, tier, book, cur, elapsed, limRet,
                buyRet, sellRet, fill, positions, calls, tierRets, exceptDemand>>

\* market_buy(market) is called: get_balance; an insufficient balance
\* returns success False
DemandCall(m, enough) ==
    /\ demand.pc = "idle"
    /\ demand' = IF enough
                 THEN [pc |-> "order", market |-> m, success |-> FALSE]
                 ELSE [pc |-> "returned", market |-> m, success |-> FALSE]
    /\ UNCHANGED orders
    /\ DemandFrame

\* _send_request('POST', '/v1/orders', params) with ord_type 'price': the
\* exchange accepts the market order, or the request fails (response None)
DemandOrder(accepted) ==
    /\ demand.pc = "order"
    /\ IF accepted
       THEN orders' = Append(orders,
                             NewOrder("bid", "price",
                                      EntrySizeInitial * PriceScale, NoVolume))
       ELSE UNCHANGED orders
    /\ demand' = [demand EXCEPT !.pc = "returned", !.success = accepted]
    /\ DemandFrame

DemandNext ==
    \/ \E m \in Markets, enough \in BOOLEAN : DemandCall(m, enough)
    \/ \E accepted \in BOOLEAN : DemandOrder(accepted)

BuyAndDemandNext == Next \/ DemandNext

SpecDemand == Init /\ [][BuyAndDemandNext]_vars

\* the scan thread is inside buy_with_settings for market m
ScanBuying(m) ==
    /\ symbol = m
    /\ pc \in {"limit_submit", "limit_wait", "limit_cancel", "limit_return",
               "market_buy"}

\* the web thread is inside market_buy for market m
DemandBuying(m) == demand.market = m /\ demand.pc = "order"

\* C25: the scan thread and the on-demand buy are never inside a buy
\* attempt for the same market at the same time.
C25_BuysSerialized ==
    \A m \in Markets : ~(ScanBuying(m) /\ DemandBuying(m))

----------------------------------------------------------------------------
\* One scan over the markets: MarketAnalyzer.get_monitored_coins (filter
\* loop, scoring loop) and TradingBot._check_buy_signals (buy loop).  What
\* happens to one market inside a loop body is an input of the step.

MaxScan == 3      \* markets handed to a loop

\* filter loop body: the market passes every criterion; a criterion or a
\* missing market entry skips it; get_candles returns nothing; a statement
\* raises
FilterOutcomes == {"pass", "skip", "no_data", "raise"}

\* scoring loop body: scored; get_candles returns nothing; prepare_dataframe
\* or calculate_buy_score raises
ScoreOutcomes == {"scored", "no_data", "raise"}

\* buy loop body: already held; no candle data; no signal; buy_with_settings
\* fails; a statement raises (among them update_position after a fill)
BuyOutcomes == {"held", "no_data", "no_signal", "buy_failed", "raise"}

\* a failure ends the loop
NextIndexAbort(outcome, i, n) ==
    IF outcome \in {"no_data", "raise"} THEN n + 1 ELSE i + 1

\* every branch of a loop body ends in continue, in the end of the body or
\* in the except clause of the body: the loop goes on with the next market
NextIndex(outcome, i, n) == i + 1

ScanInit ==
    /\ scanOp \in {"get_monitored_coins", "_check_buy_signals"}
    /\ scanN \in 1..MaxScan
    /\ scanPc = "begin" /\ scanIdx = 0
    /\ scanLog = << >> /\ market_info = << >> /\ monitored_coins = << >>
    /\ IdleExceptScan

LogEntry(stage, market, outcome) ==
    [stage |-> stage, market |-> market, outcome |-> outcome]

\* before the loops: get_monitored_coins returns [] when the market list or
\* the tickers are missing, _check_buy_signals returns when max_coins is
\* reached or the balance is short
ScanBegin(ready) ==
    /\ scanPc = "begin"
    /\ scanPc' = IF ~ready THEN "returned_early"
                 ELSE IF scanOp = "get_monitored_coins" THEN "filter" ELSE "buy"
    /\ scanIdx' = 1
    /\ UNCHANGED <<scanOp, scanN, scanLog, market_info, monitored_coins>>
    /\ UNCHANGED exceptScan

\* one body of 'for ticker in tickers'
FilterBody(outcome) ==
    /\ scanPc = "filter" /\ scanIdx <= scanN
    /\ scanLog' = Append(scanLog, LogEntry("filter", scanIdx, outcome))
    /\ market_info' = IF outcome = "pass" THEN Append(market_info, scanIdx)
                      ELSE market_info
    /\ scanIdx' = NextIndex(outcome, scanIdx, scanN)
    /\ UNCHANGED <<scanOp, scanN, scanPc, monitored_coins>>
    /\ UNCHANGED exceptScan

\* selected_markets = market_info
FilterEnd ==
    /\ scanPc = "filter" /\ scanIdx > scanN
    /\ scanPc' = "score" /\ scanIdx' = 1
    /\ UNCHANGED <<scanOp, scanN, scanLog, market_info, monitored_coins>>
    /\ UNCHANGED exceptScan

\* one body of 'for market in selected_markets'
ScoreBody(outcome) ==
    /\ scanPc = "score" /\ scanIdx <= Len(market_info)
    /\ scanLog' = Append(scanLog,
                         LogEntry("score", market_info[scanIdx], outcome))
    /\ monitored_coins' = IF outcome = "scored"
                          THEN Append(monitored_coins, market_info[scanIdx])
                          ELSE monitored_coins
    /\ scanIdx' = NextIndex(outcome, scanIdx, Len(market_info))
    /\ UNCHANGED <<scanOp, scanN, scanPc, market_info>>
    /\ UNCHANGED exceptScan

\* one body of 'for symbol in symbols'
BuyBody(outcome) ==
    /\ scanPc = "buy" /\ scanIdx <= scanN
    /\ scanLog' = Append(scanLog, LogEntry("buy", scanIdx, outcome))
    /\ scanIdx' = NextIndex(outcome, scanIdx, scanN)
    /\ UNCHANGED <<scanOp, scanN, scanPc, market_info, monitored_coins>>
    /\ UNCHANGED exceptScan

\* the last loop is over: return
ScanReturn ==
    /\ \/ scanPc = "score" /\ scanIdx > Len(market_info)
       \/ scanPc = "buy" /\ scanIdx > scanN
    /\ scanPc' = "done"
    /\ UNCHANGED <<scanOp, scanN, scanIdx, scanLog, market_info, monitored_coins>>
    /\ UNCHANGED exceptScan

ScanNext ==
    \/ \E ready \in BOOLEAN : ScanBegin(ready)
    \/ \E o \in FilterOutcomes : FilterBody(o)
    \/ FilterEnd
    \/ \E o \in ScoreOutcomes : ScoreBody(o)
    \/ \E o \in BuyOutcomes : BuyBody(o)
    \/ ScanReturn

SpecScan == ScanInit /\ [][ScanNext]_vars

\* the markets whose loop body of a stage ran, and those with an outcome
Processed(stage) ==
    {scanLog[k].market : k \in {j \in DOMAIN scanLog : scanLog[j].stage = stage}}

WithOutcome(stage, outcome) ==
    {scanLog[k].market :
        k \in {j \in DOMAIN scanLog : /\ scanLog[j].stage = stage
                                      /\ scanLog[j].outcome = outcome}}

Range(seq) == {seq[k] : k \in DOMAIN seq}

\* C26: when a scan that entered its loops returns, the body of every loop
\* has run for every market of the loop, whatever failed for other markets:
\* the filter loop for every ticker, the scoring loop for every market that
\* passed the filter (each scored market is in the result), the buy loop for
\* every symbol.
C26_FailureContained ==
    scanPc = "done" =>
        /\ scanOp = "get_monitored_coins" =>
              /\ Processed("filter") = 1..scanN
              /\ Processed("score") = WithOutcome("filter", "pass")
              /\ Range(monitored_coins) = WithOutcome("score", "scored")
        /\ scanOp = "_check_buy_signals" => Processed("buy") = 1..scanN

\* a scan returned in which the first market raised in the filter loop, a
\* later one had no candles in the scoring loop, and a third one was scored
C26_Witness ==
    /\ scanPc = "done"
    /\ scanLog[1].outcome = "raise"
    /\ WithOutcome("score", "no_data") # {}
    /\ monitored_coins # << >>

----------------------------------------------------------------------------
\* The buy score (MarketAnalyzer.calculate_buy_score)
\*
\* The market data enter as the quantities the components compare: the
\* trade-strength ratio, the volume ratio and the order-book ratio in
\* percent, the change of the close over the last four candles in hundredths
\* of a percent, Williams %R, and whether the near-high, trend-reversal,
\* stochastic and MACD conditions hold; len is the number of 1-minute
\* candles.  Scores are counted in halves of a point (a half weight is
\* weight / 2).

MaxEvals == 3     \* evaluations in one behaviour

ScoreConfs ==
    { DefaultScoreConf,
      [DefaultScoreConf EXCEPT !.momentum_weight = 0],
      [DefaultScoreConf EXCEPT !.strength_weight = 0, !.williams_enabled = FALSE,
                               !.macd_weight = 3] }

ScoreSignals ==
    [len : {4, 5, 30}, strength : {109, 110, 130}, vol_ratio : {149, 150, 200},
     ob_ratio : {129, 130}, change : {-30, -29, 30},
     near_high : BOOLEAN, reversal : BOOLEAN, williams : {-80, -79},
     stochastic : BOOLEAN, macd_cross : BOOLEAN]

\* evaluations for other markets between two evaluations of the first input
OtherInputs ==
    { ScoreInput("KRW-B", DefaultScoreConf, QuietSignals),
      ScoreInput("KRW-B", DefaultScoreConf,
                 [QuietSignals EXCEPT !.strength = 130, !.macd_cross = TRUE]) }

\* a full point of weight w, in halves
Full(w) == 2 * w
Half(w) == w

\* 1. trade strength
StrengthPoints(conf, sig) ==
    IF conf.strength_weight > 0
    THEN IF sig.strength >= conf.strength_threshold
         THEN Full(conf.strength_weight)
         ELSE IF sig.strength >= conf.strength_threshold_low
         THEN Half(conf.strength_weight) ELSE 0
    ELSE 0

\* 2. volume spike
VolumePoints(conf, sig) ==
    IF conf.volume_spike_weight > 0 /\ sig.len > 5
    THEN IF sig.vol_ratio >= conf.volume_spike_threshold
         THEN Full(conf.volume_spike_weight)
         ELSE IF sig.vol_ratio >= conf.volume_spike_threshold_low
         THEN Half(conf.volume_spike_weight) ELSE 0
    ELSE 0

\* 3. order-book imbalance
OrderbookPoints(conf, sig) ==
    IF conf.orderbook_weight > 0 /\ sig.ob_ratio >= conf.orderbook_threshold
    THEN Full(conf.orderbook_weight) ELSE 0

\* 4. momentum: the component is evaluated
MomentumOn(conf, sig) == conf.momentum_weight > 0 /\ sig.len > 4

MomentumPoints(conf, sig) ==
    IF MomentumOn(conf, sig) /\ sig.change >= conf.momentum_threshold
    THEN Full(conf.momentum_weight) ELSE 0

\* the veto fires only strictly below minus the threshold
MomentumVetoStrict(conf, sig) ==
    /\ MomentumOn(conf, sig)
    /\ sig.change < conf.momentum_threshold
    /\ sig.change < -conf.momentum_threshold

\* elif change <= -momentum_threshold: return 0.0
MomentumVeto(conf, sig) ==
    /\ MomentumOn(conf, sig)
    /\ sig.change < conf.momentum_threshold
    /\ sig.change <= -conf.momentum_threshold

\* 5. to 9.
LatePoints(conf, sig) ==
      (IF conf.near_high_weight > 0 /\ sig.near_high
       THEN Full(conf.near_high_weight) ELSE 0)
    + (IF conf.trend_reversal_weight > 0 /\ sig.len > 16 /\ sig.reversal
       THEN Full(conf.trend_reversal_weight) ELSE 0)
    + (IF /\ conf.williams_weight > 0 /\ conf.williams_enabled
          /\ sig.len >= 14 /\ sig.williams <= -80
       THEN Full(conf.williams_weight) ELSE 0)
    + (IF /\ conf.stochastic_weight > 0 /\ conf.stochastic_enabled
          /\ sig.len >= 14 /\ sig.stochastic
       THEN Full(conf.stochastic_weight) ELSE 0)
    + (IF conf.macd_weight > 0 /\ conf.macd_enabled /\ sig.macd_cross
       THEN Full(conf.macd_weight) ELSE 0)

\* the score starts from what the previous evaluation returned
CarriedScore(previous) == previous

\* score = 0.0
InitialScore(previous) == 0

CalculateBuyScore(inp, previous) ==
    IF MomentumVeto(inp.conf, inp.sig) THEN 0
    ELSE InitialScore(previous)
         + StrengthPoints(inp.conf, inp.sig) + VolumePoints(inp.conf, inp.sig)
         + OrderbookPoints(inp.conf, inp.sig) + MomentumPoints(inp.conf, inp.sig)
         + LatePoints(inp.conf, inp.sig)

ScoreInit ==
    /\ scoreIn \in {ScoreInput("KRW-A", c, s) : c \in ScoreConfs, s \in ScoreSignals}
    /\ scoreOut = 0 /\ scoreEvals = 0
    /\ scoreFirst = [in |-> scoreIn, out |-> 0]
    /\ IdleExceptScore

\* one call of calculate_buy_score: the first for the input drawn, the later
\* ones for that input again or for another market
Evaluate(inp) ==
    /\ scoreEvals < MaxEvals
    /\ scoreEvals = 0 => inp = scoreIn
    /\ scoreIn' = inp
    /\ scoreOut' = CalculateBuyScore(inp, scoreOut)
    /\ scoreFirst' = IF scoreEvals = 0
                     THEN [in |-> inp, out |-> CalculateBuyScore(inp, scoreOut)]
                     ELSE scoreFirst
    /\ scoreEvals' = scoreEvals + 1
    /\ UNCHANGED exceptScore

ScoreNext == \E inp \in {scoreFirst.in} \cup OtherInputs : Evaluate(inp)

SpecScore == ScoreInit /\ [][ScoreNext]_vars

\* the change over the last four closes is at or below minus the threshold
MomentumDown == scoreIn.sig.change <= -scoreIn.conf.momentum_threshold

\* C28 as stated: with the change at or below minus the threshold the score
\* is 0, whatever the weights are.
C28_VetoAlways ==
    (scoreEvals > 0 /\ MomentumDown) => scoreOut = 0

\* C28, amended: with the momentum component enabled (momentum_weight > 0)
\* and more than four candles, a change at or below minus the threshold gives
\* the score 0, whatever the other components and weights are.
C28_VetoWhenEnabled ==
    (/\ scoreEvals > 0 /\ MomentumDown
     /\ scoreIn.conf.momentum_weight > 0 /\ scoreIn.sig.len > 4) => scoreOut = 0

\* the veto fired exactly at minus the threshold although strength, order
\* book and MACD had fired
C28_Witness ==
    /\ scoreEvals > 0 /\ scoreOut = 0
    /\ scoreIn.conf.momentum_weight > 0 /\ scoreIn.sig.len = 5
    /\ scoreIn.sig.change = -scoreIn.conf.momentum_threshold
    /\ scoreIn.sig.strength = 130 /\ scoreIn.sig.ob_ratio = 130
    /\ scoreIn.sig.macd_cross

----------------------------------------------------------------------------
\* The tick size as a function of the price (TradingBot._get_tick_size and
\* MarketAnalyzer._get_tick_size)

\* MarketAnalyzer._get_tick_size, in hundredths of a won
AnalyzerTickSize(price) ==
    IF price < 10 * PriceScale THEN 1
    ELSE IF price < 100 * PriceScale THEN 10
    ELSE IF price < 1000 * PriceScale THEN 1 * PriceScale
    ELSE IF price < 10000 * PriceScale THEN 5 * PriceScale
    ELSE IF price < 100000 * PriceScale THEN 10 * PriceScale
    ELSE IF price < 500000 * PriceScale THEN 50 * PriceScale
    ELSE IF price < 1000000 * PriceScale THEN 100 * PriceScale
    ELSE IF price < 2000000 * PriceScale THEN 500 * PriceScale
    ELSE 1000 * PriceScale

\* the limits of the bands, in won
BandLimits == {10, 100, 1000, 10000, 100000, 500000, 1000000, 2000000}

\* prices on, just below and just above every limit, the lowest price and
\* prices inside the bands
TickPrices ==
    UNION {{b * PriceScale - 1, b * PriceScale, b * PriceScale + 1} :
           b \in BandLimits}
    \cup {0, 1, 5000, 123456, 30000000, 250000000}

TickInit ==
    /\ tickIn \in [p : TickPrices, q : TickPrices]
    /\ tickOut = NoTicks
    /\ IdleExceptTick

GetTickSize ==
    /\ ~tickOut.done
    /\ tickOut' = [bot_p |-> TickSize(tickIn.p), bot_q |-> TickSize(tickIn.q),
                   analyzer_p |-> AnalyzerTickSize(tickIn.p),
                   analyzer_q |-> AnalyzerTickSize(tickIn.q),
                   done |-> TRUE]
    /\ UNCHANGED tickIn
    /\ UNCHANGED exceptTick

TickNext == GetTickSize

SpecTick == TickInit /\ [][TickNext]_vars

\* the tick size the nine bands give for a price (hundredths of a won)
BandTick(price) ==
    CASE price < 10 * PriceScale      -> 1
      [] price >= 10 * PriceScale /\ price < 100 * PriceScale -> 10
      [] price >= 100 * PriceScale /\ price < 1000 * PriceScale -> 100
      [] price >= 1000 * PriceScale /\ price < 10000 * PriceScale -> 500
      [] price >= 10000 * PriceScale /\ price < 100000 * PriceScale -> 1000
      [] price >= 100000 * PriceScale /\ price < 500000 * PriceScale -> 5000
      [] price >= 500000 * PriceScale /\ price < 1000000 * PriceScale -> 10000
      [] price >= 1000000 * PriceScale /\ price < 2000000 * PriceScale -> 50000
      [] price >= 2000000 * PriceScale -> 100000

\* C30: both tick-size functions return a value for every price, the value
\* of the band of the price (0.01 below 10, 0.1 below 100, 1 below 1,000,
\* 5 below 10,000, 10 below 100,000, 50 below 500,000, 100 below 1,000,000,
\* 500 below 2,000,000, otherwise 1000), and a lower price never has a larger
\* tick.
C30_TickBands ==
    tickOut.done =>
        /\ tickOut.bot_p = BandTick(tickIn.p)
        /\ tickOut.bot_q = BandTick(tickIn.q)
        /\ tickOut.analyzer_p = BandTick(tickIn.p)
        /\ tickOut.analyzer_q = BandTick(tickIn.q)
        /\ tickIn.p <= tickIn.q =>
              /\ tickOut.bot_p <= tickOut.bot_q
              /\ tickOut.analyzer_p <= tickOut.analyzer_q

\* the two prices lie on both sides of the limit 10,000: 9,999.99 has the
\* tick 5 and 10,000 the tick 10
C30_Witness ==
    /\ tickOut.done
    /\ tickIn.p = 10000 * PriceScale - 1 /\ tickIn.q = 10000 * PriceScale
    /\ tickOut.bot_p = 5 * PriceScale /\ tickOut.analyzer_q = 10 * PriceScale

----------------------------------------------------------------------------
\* The cache of MarketAnalyzer (_create_empty_cache, _is_cache_valid,
\* _update_cache, _limit_cache_size)

CacheDuration == 900      \* self.cache_duration, seconds
MaxItems      == 1000     \* _limit_cache_size(max_items = 1000)
MaxCacheTicks == 2        \* clock moves in one behaviour
NoMaxAge      == 0        \* max_age left out (None): 'not max_age' holds

\* two of the four slots of _create_empty_cache, one of them size-limited
CacheSlots   == {"market_condition", "market_prices"}
LimitedSlots == {"market_prices", "candles", "indicators"}

\* the max_age arguments: left out, or a positive number of seconds
MaxAges == {NoMaxAge, 1, 2, CacheDuration}

\* the steps of the clock between two operations, seconds
ClockSteps == {1, CacheDuration - 1, CacheDuration}

\* the sizes of the data handed to _update_cache
DataSizes == {1, MaxItems + 1}

EmptyCache == [s \in CacheSlots |-> [n |-> 0, timestamp |-> None]]

\* 'if not max_age: max_age = self.cache_duration'
EffectiveMaxAge(max_age) ==
    IF max_age = NoMaxAge THEN CacheDuration ELSE max_age

CacheFreshInclusive(age, max_age) == age <= max_age

\* 'return age < max_age'
CacheFresh(age, max_age) == age < max_age

\* _is_cache_valid(cache_key, max_age)
IsCacheValidResult(slot, max_age) ==
    IF cache[slot].timestamp = None
    THEN FALSE
    ELSE CacheFresh(cacheNow - cache[slot].timestamp,
                    EffectiveMaxAge(max_age))

\* _limit_cache_size: the oldest items beyond max_items are deleted
LimitCacheSize(c) ==
    [s \in CacheSlots |->
        IF s \in LimitedSlots /\ c[s].n > MaxItems
        THEN [c[s] EXCEPT !.n = MaxItems] ELSE c[s]]

CacheInit ==
    /\ cache = EmptyCache
    /\ cacheNow = 1
    /\ cacheTicks = 0
    /\ cacheOut = NoCacheOp
    /\ IdleExceptCache

UpdateCache(slot, n) ==
    /\ cache' = LimitCacheSize(
                   [cache EXCEPT ![slot] = [n |-> n, timestamp |-> cacheNow]])
    /\ cacheOut' = [NoCacheOp EXCEPT !.op = "update", !.slot = slot]
    /\ UNCHANGED <<cacheNow, cacheTicks>>
    /\ UNCHANGED exceptCache

IsCacheValid(slot, max_age) ==
    /\ cacheOut' = [op |-> "valid", slot |-> slot, max_age |-> max_age,
                    result |-> IsCacheValidResult(slot, max_age),
                    after_update |-> cacheOut.op = "update"
                                     /\ cacheOut.slot = slot]
    /\ UNCHANGED <<cache, cacheNow, cacheTicks>>
    /\ UNCHANGED exceptCache

\* start() and stop() replace the cache by an empty one
CacheReset ==
    /\ cache # EmptyCache
    /\ cache' = EmptyCache
    /\ cacheOut' = [NoCacheOp EXCEPT !.op = "reset"]
    /\ UNCHANGED <<cacheNow, cacheTicks>>
    /\ UNCHANGED exceptCache

CacheTick(d) ==
    /\ cacheTicks < MaxCacheTicks
    /\ cacheNow' = cacheNow + d
    /\ cacheTicks' = cacheTicks + 1
    /\ cacheOut' = [NoCacheOp EXCEPT !.op = "tick"]
    /\ UNCHANGED cache
    /\ UNCHANGED exceptCache

CacheNext ==
    \/ \E slot \in CacheSlots, n \in DataSizes : UpdateCache(slot, n)
    \/ \E slot \in CacheSlots, max_age \in MaxAges : IsCacheValid(slot, max_age)
    \/ CacheReset
    \/ \E d \in ClockSteps : CacheTick(d)

SpecCache == CacheInit /\ [][CacheNext]_vars

\* C31: _is_cache_valid is false for a slot that was never populated and for
\* a slot whose age is at least the max age (the default 900 s when none is
\* given), and it is true right after _update_cache of the same slot.
C31_CacheValidity ==
    cacheOut.op = "valid" =>
        LET ts  == cache[cacheOut.slot].timestamp
            max == IF cacheOut.max_age = NoMaxAge THEN CacheDuration
                   ELSE cacheOut.max_age
        IN  /\ ts = None => ~cacheOut.result
            /\ (ts # None /\ cacheNow - ts >= max) => ~cacheOut.result
            /\ cacheOut.after_update => cacheOut.result

\* a slot populated one second ago is asked for with max_age 1 and found
\* stale
C31_Witness ==
    /\ cacheOut.op = "valid"
    /\ cacheOut.max_age = 1
    /\ cache[cacheOut.slot].timestamp # None
    /\ cacheNow - cache[cacheOut.slot].timestamp = 1
    /\ ~cacheOut.result

----------------------------------------------------------------------------
\* TradingState: can_open_position, add_position, remove_position,
\* set_market_cooldown

MaxPositions == 2         \* trading_config['max_positions']
MaxStateTime == 3         \* the clock of TradingState stops here

StateMarkets    == {"KRW-BTC", "KRW-ETH", "KRW-XRP"}
CooldownMinutes == {1, 2}

\* the reasons can_open_position gives
ReasonMax      == "max positions exceeded"       \* "최대 포지션 수 초과"
ReasonCooldown == "cooldown"                     \* "거래 제한 중 (...)"
ReasonHeld     == "position already exists"      \* "이미 보유 중인 포지션 존재"

\* can_open_position(market): the tests in the order of the code
CanOpen(market) ==
    IF Cardinality(active_positions) >= MaxPositions
    THEN [ok |-> FALSE, reason |-> ReasonMax]
    ELSE IF market_cooldowns[market] # None
            /\ stateNow < market_cooldowns[market]
    THEN [ok |-> FALSE, reason |-> ReasonCooldown]
    ELSE IF market \in active_positions
    THEN [ok |-> FALSE, reason |-> ReasonHeld]
    ELSE [ok |-> TRUE, reason |-> ""]

StateInit ==
    /\ active_positions = {}
    /\ market_cooldowns = [m \in StateMarkets |-> None]
    /\ stateNow = 1
    /\ openOut = NoOpenCall
    /\ IdleExceptState

CanOpenPosition(market) ==
    /\ openOut' = [called |-> TRUE, market |-> market,
                   held |-> market \in active_positions,
                   full |-> Cardinality(active_positions) >= MaxPositions,
                   ok |-> CanOpen(market).ok,
                   reason |-> CanOpen(market).reason]
    /\ UNCHANGED <<active_positions, market_cooldowns, stateNow>>
    /\ UNCHANGED exceptState

\* add_position raises ValueError when can_open_position refuses
AddPosition(market) ==
    /\ active_positions' = IF CanOpen(market).ok
                           THEN active_positions \cup {market}
                           ELSE active_positions
    /\ openOut' = NoOpenCall
    /\ UNCHANGED <<market_cooldowns, stateNow>>
    /\ UNCHANGED exceptState

RemovePosition(market) ==
    /\ market \in active_positions
    /\ active_positions' = active_positions \ {market}
    /\ openOut' = NoOpenCall
    /\ UNCHANGED <<market_cooldowns, stateNow>>
    /\ UNCHANGED exceptState

SetMarketCooldown(market, minutes) ==
    /\ market_cooldowns' = [market_cooldowns EXCEPT ![market] = stateNow + minutes]
    /\ openOut' = NoOpenCall
    /\ UNCHANGED <<active_positions, stateNow>>
    /\ UNCHANGED exceptState

StateTick ==
    /\ stateNow < MaxStateTime
    /\ stateNow' = stateNow + 1
    /\ openOut' = NoOpenCall
    /\ UNCHANGED <<active_positions, market_cooldowns>>
    /\ UNCHANGED exceptState

StateNext ==
    \/ \E m \in StateMarkets : CanOpenPosition(m)
    \/ \E m \in StateMarkets : AddPosition(m)
    \/ \E m \in StateMarkets : RemovePosition(m)
    \/ \E m \in StateMarkets, d \in CooldownMinutes : SetMarketCooldown(m, d)
    \/ StateTick

SpecState == StateInit /\ [][StateNext]_vars

\* C32: can_open_position refuses a market that has an active position with
\* the reason 'position already exists', also when the number of active
\* positions is at the maximum, and refuses a market without a position at
\* that maximum with 'max positions exceeded'.
C32_DuplicateBeforeLimit ==
    openOut.called =>
        /\ openOut.held => ~openOut.ok /\ openOut.reason = ReasonHeld
        /\ (~openOut.held /\ openOut.full) =>
              ~openOut.ok /\ openOut.reason = ReasonMax

----------------------------------------------------------------------------
\* What one buy_with_settings call leaves on the exchange (checked under Spec)

\* the buy orders the exchange accepted from the running call
BidOrdersOfCall == { calls[i].id : i \in AcceptedLimitBids }

\* the notional of the call's buy orders the exchange has filled, in won
FilledNotional ==
    Cardinality({ id \in BidOrdersOfCall : orders[id].state = "done" })
        * EntrySizeInitial

\* C33: the notional filled across the orders of one buy_with_settings call
\* never exceeds ENTRY_SIZE_INITIAL: once a later order of the call is
\* submitted, every earlier one is neither filled nor able to fill.
C33_FillWithinEntrySize ==
    /\ FilledNotional <= EntrySizeInitial
    /\ \A i, j \in AcceptedLimitBids :
          i < j => orders[calls[i].id].state \notin {"done", "wait"}

\* buy_with_settings has returned (False, ...)
BuyReturnedFailure == BuyHasReturned /\ ~buyRet.success /\ ~buyRet.raised

\* C34: after buy_with_settings returned failure, no order the call
\* submitted is filled or still open on the exchange.
C34_FailureLeavesNoOrder ==
    BuyReturnedFailure =>
        \A id \in BidOrdersOfCall : orders[id].state \notin {"done", "wait"}

\* C35: the engine never cancels a protective sell it placed.
C35_SellNeverCanceled ==
    \A i \in 1..Len(calls) :
        calls[i].op = "cancel_order" => orders[calls[i].id].side # "ask"

----------------------------------------------------------------------------
\* What start() and stop() promise with their return value (checked under
\* SpecAnalyzer)

\* the step with which a start() or stop() call returns True
ReturnsTrue(c, op) ==
    /\ callers'[c] # callers[c]
    /\ callers'[c].op = op
    /\ callers'[c].ret = "True"

\* the threads inside an iteration of the loop body
Iterating(ths) == { t \in DOMAIN ths : ths[t].pc = "iterating" }

\* C36: when start() returns True, the thread it refers to is alive and the
\* stop event is clear.
C36_StartTrueMeansRunning ==
    [][\A c \in LifeCallers :
          ReturnsTrue(c, "start") =>
              /\ analysis_thread' # None
              /\ threads'[analysis_thread'].pc # "exited"
              /\ ~stop_event']_vars

\* C37: at most one analysis thread is inside an iteration of the scan loop.
C37_OneThreadIterates == Cardinality(Iterating(threads)) <= 1

\* C38: when stop() returns True, no thread is inside an iteration of the
\* scan loop.
C38_StopTrueMeansEnded ==
    [][\A c \in LifeCallers :
          ReturnsTrue(c, "stop") => Iterating(threads') = {}]_vars

----------------------------------------------------------------------------
\* The sign of the daily figure (checked under SpecRisk)

\* C39: can_trade gives the daily-loss reason only when the day's net result
\* is a loss of at least max_daily_loss, never on a non-negative net result.
C39_DailyVetoOnlyOnLoss ==
    (riskCall.op = "can_trade" /\ riskCall.reason = "daily") =>
        /\ ComparedDaily < 0
        /\ -ComparedDaily >= risk_config.max_daily_loss

----------------------------------------------------------------------------
\* trader/upbit_trader.py: process_market on top of the risk manager

MaxTraderTime == 3    \* the clock of the trader's risk manager stops here

\* the risk_management section of the trader's config.json
TraderRiskConfig ==
    [max_daily_loss |-> 3, consecutive_loss_limit |-> 2, cooldown_minutes |-> 2]

TraderInit ==
    /\ risk_config = TraderRiskConfig
    /\ consecutive_losses = 0 /\ last_loss_time = None /\ daily_loss = 0
    /\ now = 1
    /\ last_reset_day = Today(1)
    /\ riskCall = NoRiskCall
    /\ lossRun = 0
    /\ trPositions = {}
    /\ trOut = NoProcess
    /\ IdleExceptTrader

\* TradingState.add_position(market, price, volume)
TraderAddPosition(market) ==
    /\ market \notin trPositions
    /\ trPositions' = trPositions \cup {market}
    /\ trOut' = NoProcess
    /\ UNCHANGED riskVars
    /\ UNCHANGED exceptTrader

\* process_market(market, state): can_trade first; a refusal is logged and
\* the function returns.  Otherwise the next statement builds the ticker URL
\* from SERVER_URL, a name the module neither defines nor imports: NameError,
\* which the handler of main's loop logs.  Neither way reaches
\* check_sell_conditions or sell_market_order.
ProcessMarket(market) ==
    /\ CanTradeBody
    /\ trOut' = [called |-> TRUE, market |-> market,
                 held |-> market \in trPositions,
                 vetoed |-> ~riskCall'.allowed,
                 evaluated |-> FALSE, sold |-> FALSE,
                 raised |-> IF riskCall'.allowed THEN "NameError" ELSE ""]
    /\ UNCHANGED trPositions
    /\ UNCHANGED exceptTrader

TraderNext ==
    \/ \E m \in Markets : TraderAddPosition(m)
    \/ \E m \in Markets : ProcessMarket(m)
    \/ now < MaxTraderTime /\ ClockTick
    \/ \E p \in Profits : UpdateTradeResult(p)

SpecTrader == TraderInit /\ [][TraderNext]_vars

\* C40: a call of process_market that the risk manager vetoes still
\* evaluates the sell conditions of the market's open position.
C40_VetoKeepsSellCheck ==
    (trOut.called /\ trOut.vetoed /\ trOut.held) => trOut.evaluated

====
